---- MODULE Spec2Model ----
(***************************************************************************)
(* Attribute clamping pipeline (UGASCoreAttributeSet) and overlap-driven   *)
(* effect application / removal (AGASCoreGameplayEffectActor) of the       *)
(* GASCore plugin, on top of the ability system component of the target.   *)
(*                                                                         *)
(* Numbers are fixed point: the float value v is the integer v * U.        *)
(***************************************************************************)
EXTENDS Integers, Sequences, FiniteSets, TLC

\* ------------------------------------------------------------------ bounds
\* Highest handle id the ability system component hands out in a run.
MaxHandles == 3
\* Another source stops lowering MaxHealth once it is at or below -MaxDebt
\* (keeps MaxHealth in a finite range; it may still become negative).
MaxDebt == 50
MaxRespawns == 1
MaxInput == 250
MaxRegistrations == 3

\* -------------------------------------------------------------- constants
\* Fixed-point scale: two decimals.
U == 100
\* UPROPERTY default of UGASCoreAttributeSet.
DefaultRoundingDecimals == 0
\* FActiveGameplayEffectHandle default (INDEX_NONE): IsValid() is false.
INDEX_NONE == 0 - 1

NoClass == "None"

\* ------------------------------------------------------------------ state
VARIABLES
    GameplayEffects,        \* per actor: the authored rows (immutable)
    BaseValue,              \* target attribute set: BaseValue per attribute
    CurrentValue,           \* target attribute set: CurrentValue per attribute
    ActiveEffects,          \* target ASC: handle -> [Class, Stacks]
    NextHandle,             \* target ASC: next fresh handle id
    ActiveGameplayEffects,  \* per actor: handle -> FGASCoreTrackedEffect
    bActorDestroyed,        \* per actor: Destroy() has been called
    HeroASC,                \* the ability system component the Hero owns now
    last                    \* the operation that led to this state

vars == << GameplayEffects, BaseValue, CurrentValue, ActiveEffects, NextHandle,
           ActiveGameplayEffects, bActorDestroyed, HeroASC, last >>

\* ------------------------------------------------- attribute set (target)
Attrs == {"Health", "MaxHealth", "Mana", "MaxMana"}

\* Pairs registered by the derived set's constructor.
CurrentToMax == [Health |-> "MaxHealth", Mana |-> "MaxMana"]
MaxToCurrent == [MaxHealth |-> "Health", MaxMana |-> "Mana"]

TryGetMaxForCurrent(Current) == Current \in DOMAIN CurrentToMax
TryGetCurrentForMax(MaxA) == MaxA \in DOMAIN MaxToCurrent

\* Designer defaults the attribute store is initialised with.
InitBase == [Health |-> 90 * U, MaxHealth |-> 100 * U, Mana |-> 40 * U, MaxMana |-> 50 * U]

MinOf(a, b) == IF a < b THEN a ELSE b
MaxOf(a, b) == IF a > b THEN a ELSE b

\* FMath::Clamp(X, Min, Max) == Max(Min(X, Max), Min)
Clamp(X, MinValue, MaxValue) == MaxOf(MinOf(X, MaxValue), MinValue)

IsNearlyEqual(A, B) == A = B

GetRoundingDecimals(Attribute) == DefaultRoundingDecimals

\* Width of one rounding step on the fixed-point scale.
RoundStep(Decimals) ==
    IF Decimals <= 0 THEN U
    ELSE IF Decimals = 1 THEN U \div 10
    ELSE 1

\* A rounding that always moves up to the next step.
RoundToDecimals_NextStep(Value, Decimals) ==
    ((Value \div RoundStep(Decimals)) + 1) * RoundStep(Decimals)

\* FMath::RoundToInt(F) is FloorToInt(F + 0.5); with Decimals > 0 the value is
\* scaled by 10^Decimals first and scaled back afterwards.
RoundToDecimals(Value, Decimals) ==
    LET Step == RoundStep(Decimals)
    IN  ((2 * Value + Step) \div (2 * Step)) * Step

GetCurrentNumeric(s, Attr) == IF Attr \in Attrs THEN s.cur[Attr] ELSE 0
GetBaseNumeric(s, Attr) == IF Attr \in Attrs THEN s.base[Attr] ELSE 0

\* "Clamp first, then round": the two steps the current-write, base-write and
\* re-clamp paths share for a paired resource, MaxV being the current value
\* of the capacity and Decimals what GetRoundingDecimals returns for the
\* resource (DefaultRoundingDecimals, or the value of an override).
ClampThenRound(NewValue, MaxV, Decimals) == RoundToDecimals(Clamp(NewValue, 0, MaxV), Decimals)

\* Returns the value the engine commits as CurrentValue.
PreAttributeChange(s, Attribute, NewValue) ==
    IF TryGetMaxForCurrent(Attribute)
    THEN ClampThenRound(NewValue, GetCurrentNumeric(s, CurrentToMax[Attribute]),
                        GetRoundingDecimals(Attribute))
    ELSE RoundToDecimals(NewValue, GetRoundingDecimals(Attribute))

\* PreAttributeBaseChange without its clamp to [0, Max]: rounding only.
PreAttributeBaseChange_RoundOnly(s, Attribute, NewValue) ==
    RoundToDecimals(NewValue, GetRoundingDecimals(Attribute))

\* Returns the value the engine commits as BaseValue.
PreAttributeBaseChange(s, Attribute, NewValue) ==
    IF TryGetMaxForCurrent(Attribute)
    THEN ClampThenRound(NewValue, GetCurrentNumeric(s, CurrentToMax[Attribute]),
                        GetRoundingDecimals(Attribute))
    ELSE RoundToDecimals(NewValue, GetRoundingDecimals(Attribute))

\* ------------------------------------------- gameplay effect definitions
\* Class default objects of the effect classes used by the rows and by other
\* sources: duration policy, period, stacking and additive modifiers.
EffectCDO ==
    [ GE_Heal          |-> [DurationPolicy |-> "Instant",     Periodic |-> FALSE, Stacking |-> FALSE, StackLimit |-> 1,
                            Mods |-> << [Attr |-> "Health", Mag |-> 50 * U] >>],
      GE_Damage        |-> [DurationPolicy |-> "Instant",     Periodic |-> FALSE, Stacking |-> FALSE, StackLimit |-> 1,
                            Mods |-> << [Attr |-> "Health", Mag |-> 0 - 4050] >>],
      GE_MaxHealthDown |-> [DurationPolicy |-> "Instant",     Periodic |-> FALSE, Stacking |-> FALSE, StackLimit |-> 1,
                            Mods |-> << [Attr |-> "MaxHealth", Mag |-> 0 - 50 * U] >>],
      GE_ManaPotion    |-> [DurationPolicy |-> "Instant",     Periodic |-> FALSE, Stacking |-> FALSE, StackLimit |-> 1,
                            Mods |-> << [Attr |-> "Mana", Mag |-> 30 * U] >>],
      GE_MaxHealthBuff |-> [DurationPolicy |-> "Infinite",    Periodic |-> FALSE, Stacking |-> FALSE, StackLimit |-> 1,
                            Mods |-> << [Attr |-> "MaxHealth", Mag |-> 20 * U] >>],
      GE_Buff_X        |-> [DurationPolicy |-> "Infinite",    Periodic |-> FALSE, Stacking |-> FALSE, StackLimit |-> 1,
                            Mods |-> << [Attr |-> "Health", Mag |-> 30 * U] >>],
      GE_StackAura     |-> [DurationPolicy |-> "Infinite",    Periodic |-> FALSE, Stacking |-> TRUE,  StackLimit |-> 3,
                            Mods |-> << [Attr |-> "MaxHealth", Mag |-> 10 * U] >>],
      GE_PairAura      |-> [DurationPolicy |-> "Infinite",    Periodic |-> FALSE, Stacking |-> TRUE,  StackLimit |-> 2,
                            Mods |-> << [Attr |-> "MaxMana", Mag |-> 10 * U] >>],
      GE_FireArea      |-> [DurationPolicy |-> "Infinite",    Periodic |-> TRUE,  Stacking |-> FALSE, StackLimit |-> 1,
                            Mods |-> << [Attr |-> "Health", Mag |-> 0 - 10 * U] >>],
      GE_Shield        |-> [DurationPolicy |-> "HasDuration", Periodic |-> FALSE, Stacking |-> FALSE, StackLimit |-> 1,
                            Mods |-> << [Attr |-> "MaxMana", Mag |-> 20 * U] >> ] ]

EffectClasses == DOMAIN EffectCDO

GetDurationPolicyOf(EffectClass) ==
    IF EffectClass = NoClass THEN "Instant" ELSE EffectCDO[EffectClass].DurationPolicy

IsPeriodic(EffectClass) == EffectClass # NoClass /\ EffectCDO[EffectClass].Periodic
IsInfinite(EffectClass) == GetDurationPolicyOf(EffectClass) = "Infinite"
IsNonInstant(EffectClass) == GetDurationPolicyOf(EffectClass) # "Instant"

\* ---------------------------------------- ability system component (target)
\* A state s is a record: base, cur (attribute values), active (handle ->
\* [Class, Stacks] of the active effects on the target), next (next fresh
\* handle), reg (the actor's ActiveGameplayEffects), destroyed, asc (the
\* Hero's component), trace,
\* notified (the attribute-change broadcasts).

RECURSIVE ModsFor(_, _, _)
\* Sum of the magnitudes of the modifiers in Mods[i..] that target Attr.
ModsFor(Mods, i, Attr) ==
    IF i > Len(Mods) THEN 0
    ELSE (IF Mods[i].Attr = Attr THEN Mods[i].Mag ELSE 0) + ModsFor(Mods, i + 1, Attr)

\* What one active effect contributes to the aggregator of Attr. A periodic
\* effect executes on its period instead of contributing a modifier.
Contribution(e, Attr) ==
    IF EffectCDO[e.Class].Periodic THEN 0
    ELSE e.Stacks * ModsFor(EffectCDO[e.Class].Mods, 1, Attr)

RECURSIVE AggregatorSum(_, _, _)
AggregatorSum(active, hs, Attr) ==
    IF hs = {} THEN 0
    ELSE LET h == CHOOSE x \in hs : TRUE
         IN  Contribution(active[h], Attr) + AggregatorSum(active, hs \ {h}, Attr)

\* Base plus every active temporary modifier, before any clamp.
Evaluate(s, Attr) == s.base[Attr] + AggregatorSum(s.active, DOMAIN s.active, Attr)

Note(s, rec) == [s EXCEPT !.trace = Append(@, rec)]

\* The attribute-change delegate broadcasting only values that differ.
BroadcastAttributeChange_IfChanged(s, Attr, OldValue, NewValue) ==
    IF OldValue = NewValue THEN s
    ELSE [s EXCEPT !.notified = Append(@, [attr |-> Attr, old |-> OldValue, new |-> NewValue,
                                           at |-> Len(s.trace)])]

\* GetGameplayAttributeValueChangeDelegate(Attr).Broadcast: every callback
\* bound to Attr is invoked with the new value; `at` is the step it follows.
BroadcastAttributeChange(s, Attr, OldValue, NewValue) ==
    [s EXCEPT !.notified = Append(@, [attr |-> Attr, old |-> OldValue, new |-> NewValue,
                                      at |-> Len(s.trace)])]

\* The engine commits NewValue as the current value of Attr and broadcasts
\* the change.
CommitCurrentValue(s, Attr, NewValue) ==
    BroadcastAttributeChange(
        Note([s EXCEPT !.cur[Attr] = NewValue],
             [op |-> "SetCurrent", attr |-> Attr, old |-> s.cur[Attr], new |-> NewValue,
              base |-> s.base[Attr], mods |-> AggregatorSum(s.active, DOMAIN s.active, Attr),
              cap |-> IF TryGetMaxForCurrent(Attr) THEN s.cur[CurrentToMax[Attr]] ELSE 0]),
        Attr, s.cur[Attr], NewValue)

\* The aggregator of Attr is dirty: the current value is re-evaluated and
\* committed through PreAttributeChange.
InternalUpdateNumericalAttribute(s, Attr) ==
    CommitCurrentValue(s, Attr, PreAttributeChange(s, Attr, Evaluate(s, Attr)))

\* The engine commits NewBase as the base value of Attr.
CommitBaseValue(s, Attr, Requested, NewBase) ==
    Note([s EXCEPT !.base[Attr] = NewBase],
         [op |-> "SetBase", attr |-> Attr, old |-> s.base[Attr], req |-> Requested, new |-> NewBase,
          cap |-> IF TryGetMaxForCurrent(Attr) THEN s.cur[CurrentToMax[Attr]] ELSE 0])

\* UAbilitySystemComponent::SetNumericAttributeBase
SetNumericAttributeBase(s, Attr, NewValue) ==
    InternalUpdateNumericalAttribute(
        CommitBaseValue(s, Attr, NewValue, PreAttributeBaseChange(s, Attr, NewValue)), Attr)

\* A setter that takes the temporary modifiers off the value it writes to
\* the base, so that the current value comes out as NewValue.
SetCurrentNumeric_LessModifiers(s, Attr, NewValue) ==
    SetNumericAttributeBase(
        Note(s, [op |-> "SetCurrentNumeric", attr |-> Attr,
                 value |-> RoundToDecimals(NewValue, GetRoundingDecimals(Attr))]),
        Attr,
        RoundToDecimals(NewValue, GetRoundingDecimals(Attr))
            - AggregatorSum(s.active, DOMAIN s.active, Attr))

SetCurrentNumeric(s, Attr, NewValue) ==
    SetNumericAttributeBase(
        Note(s, [op |-> "SetCurrentNumeric", attr |-> Attr,
                 value |-> RoundToDecimals(NewValue, GetRoundingDecimals(Attr))]),
        Attr, RoundToDecimals(NewValue, GetRoundingDecimals(Attr)))

\* The body of PostGameplayEffectExecute for a changed Max attribute.
ReclampCurrent(s, CurrentAttr, MaxAttr, OldCurrent, NewCurrent) ==
    IF ~IsNearlyEqual(OldCurrent, NewCurrent)
    THEN SetCurrentNumeric(s, CurrentAttr, NewCurrent)
    ELSE s

PostGameplayEffectExecute(s, Attribute) ==
    IF TryGetCurrentForMax(Attribute)
    THEN ReclampCurrent(
             Note(s, [op |-> "PostExecute", attr |-> Attribute, max |-> GetCurrentNumeric(s, Attribute),
                      old |-> GetCurrentNumeric(s, MaxToCurrent[Attribute])]),
             MaxToCurrent[Attribute], Attribute,
             GetCurrentNumeric(s, MaxToCurrent[Attribute]),
             ClampThenRound(GetCurrentNumeric(s, MaxToCurrent[Attribute]),
                            GetCurrentNumeric(s, Attribute),
                            GetRoundingDecimals(MaxToCurrent[Attribute])))
    ELSE Note(s, [op |-> "PostExecute", attr |-> Attribute, max |-> 0, old |-> 0])

ModsOf(EffectClass) == EffectCDO[EffectClass].Mods

RECURSIVE ExecuteMods(_, _, _)
\* Instant / periodic execution of an effect: every modifier from the i-th on
\* is applied to the base value and followed by PostGameplayEffectExecute for
\* its attribute.
ExecuteMods(s, EffectClass, i) ==
    IF i > Len(ModsOf(EffectClass)) THEN s
    ELSE ExecuteMods(
             PostGameplayEffectExecute(
                 SetNumericAttributeBase(
                     Note(s, [op |-> "ExecuteMod", class |-> EffectClass,
                              attr |-> ModsOf(EffectClass)[i].Attr, mag |-> ModsOf(EffectClass)[i].Mag]),
                     ModsOf(EffectClass)[i].Attr,
                     s.base[ModsOf(EffectClass)[i].Attr] + ModsOf(EffectClass)[i].Mag),
                 ModsOf(EffectClass)[i].Attr),
             EffectClass, i + 1)

RECURSIVE UpdateAggregators(_, _, _)
\* Re-evaluates the current value of every attribute Mods[i..] touch.
UpdateAggregators(s, Mods, i) ==
    IF i > Len(Mods) THEN s
    ELSE UpdateAggregators(InternalUpdateNumericalAttribute(s, Mods[i].Attr), Mods, i + 1)

RECURSIVE UpdateAggregatorsAndPaired(_, _, _)
\* The same, re-evaluating also the resource paired with a capacity.
UpdateAggregatorsAndPaired(s, Mods, i) ==
    IF i > Len(Mods) THEN s
    ELSE UpdateAggregatorsAndPaired(
             IF TryGetCurrentForMax(Mods[i].Attr)
             THEN InternalUpdateNumericalAttribute(InternalUpdateNumericalAttribute(s, Mods[i].Attr),
                                                   MaxToCurrent[Mods[i].Attr])
             ELSE InternalUpdateNumericalAttribute(s, Mods[i].Attr),
             Mods, i + 1)

\* A change of an effect that dirties the aggregator of the paired resource
\* along with the aggregator of a capacity.
OnActiveEffectChanged_DirtiesPaired(s, EffectClass) ==
    IF EffectCDO[EffectClass].Periodic THEN s
    ELSE UpdateAggregatorsAndPaired(s, EffectCDO[EffectClass].Mods, 1)

\* Adding, removing or restacking an effect with aggregator modifiers dirties
\* the aggregators of its attributes; a periodic effect has none.
OnActiveEffectChanged(s, EffectClass) ==
    IF EffectCDO[EffectClass].Periodic THEN s
    ELSE UpdateAggregators(s, EffectCDO[EffectClass].Mods, 1)

\* The active effects of this class a stacking application merges into.
StackTargets(s, EffectClass) ==
    IF EffectCDO[EffectClass].Stacking
    THEN {h \in DOMAIN s.active : s.active[h].Class = EffectClass}
    ELSE {}

Returning(s, value) == [s EXCEPT !.ret = value]

\* A new active effect with one stack under the fresh handle s.next.
AddActiveEffect(s, EffectClass) ==
    [s EXCEPT !.active = [x \in DOMAIN s.active \cup {s.next} |->
                             IF x = s.next THEN [Class |-> EffectClass, Stacks |-> 1]
                             ELSE s.active[x]],
              !.next = s.next + 1]

\* UAbilitySystemComponent::ApplyGameplayEffectSpecToSelf; the returned
\* handle is left in s.ret (INDEX_NONE for an instant effect).
ApplyGameplayEffectSpecToSelf(s, EffectClass) ==
    IF EffectCDO[EffectClass].DurationPolicy = "Instant"
    THEN Returning(ExecuteMods(s, EffectClass, 1), INDEX_NONE)
    ELSE IF StackTargets(s, EffectClass) # {}
    THEN Returning(
             OnActiveEffectChanged(
                 [s EXCEPT !.active[CHOOSE x \in StackTargets(s, EffectClass) : TRUE].Stacks =
                               MinOf(@ + 1, EffectCDO[EffectClass].StackLimit)],
                 EffectClass),
             CHOOSE x \in StackTargets(s, EffectClass) : TRUE)
    ELSE IF EffectCDO[EffectClass].Periodic
    THEN Returning(ExecuteMods(AddActiveEffect(s, EffectClass), EffectClass, 1), s.next)
    ELSE Returning(OnActiveEffectChanged(AddActiveEffect(s, EffectClass), EffectClass), s.next)

\* UAbilitySystemComponent::RemoveActiveGameplayEffect; s.ret is 1 when the
\* handle was active (stacks or the whole effect removed), else 0.
RemoveActiveGameplayEffect(s, Handle, StacksToRemove) ==
    IF Handle \notin DOMAIN s.active THEN Returning(s, 0)
    ELSE Returning(
             OnActiveEffectChanged(
                 IF StacksToRemove > 0 /\ s.active[Handle].Stacks > StacksToRemove
                 THEN [s EXCEPT !.active[Handle].Stacks = @ - StacksToRemove]
                 ELSE [s EXCEPT !.active = [x \in DOMAIN s.active \ {Handle} |-> s.active[x]]],
                 s.active[Handle].Class),
             1)

GetActiveGameplayEffect(s, Handle) == Handle \in DOMAIN s.active

\* ------------------------------------------------ gameplay effect actor
Actors == {"A1", "A2"}

\* What an overlap event can hand over: a character with an ability system
\* component, an actor without one, or no actor.
TargetActors == {"Hero", "Crate", "nullptr"}

\* A null UAbilitySystemComponent pointer; components are numbered from 1.
NullASC == 0

\* A lookup that resolves every actor to the Hero's component.
GetAbilitySystemComponent_AlwaysResolves(s, TargetActor) == s.asc

\* UAbilitySystemBlueprintLibrary::GetAbilitySystemComponent
GetAbilitySystemComponent(s, TargetActor) ==
    IF TargetActor = "Hero" THEN s.asc ELSE NullASC

\* TWeakObjectPtr::IsValid: the component has not been destroyed. The
\* components the Hero owned before the one it owns now are destroyed.
IsValidASC(s, ASC) == ASC = s.asc

\* AActor::Destroy marks the actor; the caller keeps running.
Destroy(s, a) == Note([s EXCEPT !.destroyed[a] = TRUE], [op |-> "Destroy", actor |-> a])

\* Step 6 of ApplyGameplayEffectToTarget: the entry recorded for a handle.
TrackedEffectFor(EffectConfig, TargetASC) ==
    [ASC |-> TargetASC,
     EffectClass |-> EffectConfig.EffectClass,
     bDestroyOnRemoval |-> EffectConfig.bDestroyOnEffectRemoval,
     StacksToRemove |-> IF EffectConfig.StacksToRemove <= 0 THEN 0 - 1 ELSE EffectConfig.StacksToRemove]

\* The condition for tracking without the removal policy of the row.
ShouldTrack_AnyPolicy(ActiveEffectHandle, EffectConfig) ==
    /\ ActiveEffectHandle # INDEX_NONE
    /\ IsNonInstant(EffectConfig.EffectClass)

\* Step 6 of ApplyGameplayEffectToTarget: the condition for tracking.
ShouldTrack(ActiveEffectHandle, EffectConfig) ==
    /\ ActiveEffectHandle # INDEX_NONE
    /\ EffectConfig.RemovalPolicy # "DoNotRemove"
    /\ IsNonInstant(EffectConfig.EffectClass)

\* A registry keeping one entry per effect class instead of one per handle.
MapAdd_OnePerClass(m, k, v) ==
    [x \in {y \in DOMAIN m : m[y].EffectClass # v.EffectClass} \cup {k} |->
        IF x = k THEN v ELSE m[x]]

\* TMap::Add: inserts the key or overwrites its value.
MapAdd(m, k, v) == [x \in DOMAIN m \cup {k} |-> IF x = k THEN v ELSE m[x]]

\* Step 6 keeping the entry a handle already has (TMap::FindOrAdd).
Track_KeepFirst(s1, a, i, TargetASC) ==
    IF ShouldTrack(s1.ret, GameplayEffects[a][i]) /\ s1.ret \notin DOMAIN s1.reg[a]
    THEN [s1 EXCEPT !.reg[a] = MapAdd(@, s1.ret, TrackedEffectFor(GameplayEffects[a][i], TargetASC))]
    ELSE s1

\* Step 6 of ApplyGameplayEffectToTarget, s1 being the state after the
\* application and s1.ret its handle.
Track(s1, a, i, TargetASC) ==
    IF ShouldTrack(s1.ret, GameplayEffects[a][i])
    THEN [s1 EXCEPT !.reg[a] = MapAdd(@, s1.ret, TrackedEffectFor(GameplayEffects[a][i], TargetASC))]
    ELSE s1

\* The step note of one application: the returned handle, the target's
\* component and the actor's registry before (in pre) and after it.
NoteApply(s2, a, i, TargetASC, pre) ==
    Note(s2, [op |-> "Apply", actor |-> a, row |-> i, handle |-> s2.ret, asc |-> TargetASC,
              tracked |-> ShouldTrack(s2.ret, GameplayEffects[a][i]),
              reg |-> s2.reg[a], base |-> s2.base, cur |-> s2.cur, pre |-> pre])

\* Steps 6 and 7 of ApplyGameplayEffectToTarget, s1 being the state after
\* the application and s1.ret its handle.
TrackAndDestroy(s1, a, i, TargetASC, pre) ==
    IF GameplayEffects[a][i].bDestroyOnEffectApplication
    THEN Destroy(NoteApply(Track(s1, a, i, TargetASC), a, i, TargetASC, pre), a)
    ELSE NoteApply(Track(s1, a, i, TargetASC), a, i, TargetASC, pre)

\* UAbilitySystemComponent::MakeOutgoingSpec: a spec of the class at the
\* level handed over; only a null class yields an invalid spec handle.
MakeOutgoingSpec(EffectClass, Level) ==
    [IsValid |-> EffectClass # NoClass, Def |-> EffectClass, Level |-> Level]

\* Steps 4 to 7 of ApplyGameplayEffectToTarget for a valid target component.
ApplySpecToTarget(s, a, i, TargetASC, Spec) ==
    IF ~Spec.IsValid THEN s
    ELSE TrackAndDestroy(ApplyGameplayEffectSpecToSelf(s, Spec.Def), a, i, TargetASC,
                         [active |-> s.active, reg |-> s.reg[a], destroyed |-> s.destroyed[a],
                          base |-> s.base, cur |-> s.cur])

\* checkf(EffectConfig.EffectClass, ...) of step 2 fails: the program stops
\* with a fatal error.
Fatal(s, a, i) == Note(s, [op |-> "Fatal", actor |-> a, row |-> i])

ApplyGameplayEffectToTarget(s, a, TargetActor, i) ==
    IF GetAbilitySystemComponent(s, TargetActor) = NullASC THEN s
    ELSE IF GameplayEffects[a][i].EffectClass = NoClass THEN Fatal(s, a, i)
    ELSE ApplySpecToTarget(s, a, i, GetAbilitySystemComponent(s, TargetActor),
                           MakeOutgoingSpec(GameplayEffects[a][i].EffectClass,
                                            GameplayEffects[a][i].ActorLevel))

\* Step 3 without looking at the removed count: every request counts as a
\* removal.
AccumulateRemoval_IgnoreCount(s1, EffectHandle, TrackedEffect) ==
    [s1 EXCEPT !.loc = [bRemovedAnyStacks |-> TRUE,
                        bDestroyAfterRemoval |-> @.bDestroyAfterRemoval \/ TrackedEffect.bDestroyOnRemoval,
                        removed |-> @.removed \cup {EffectHandle}]]

\* Step 3 without looking at the entry's destroy-on-removal intent.
AccumulateRemoval_IgnoreIntent(s1, EffectHandle, TrackedEffect) ==
    [s1 EXCEPT !.loc = [bRemovedAnyStacks |-> @.bRemovedAnyStacks \/ s1.ret # 0,
                        bDestroyAfterRemoval |-> @.bDestroyAfterRemoval \/ s1.ret # 0,
                        removed |-> IF s1.ret # 0 THEN @.removed \cup {EffectHandle} ELSE @.removed]]

\* Step 3 of RemoveGameplayEffectFromTarget for one handle, s1 being the
\* state after RemoveActiveGameplayEffect and s1.ret the removed count.
AccumulateRemoval(s1, EffectHandle, TrackedEffect) ==
    [s1 EXCEPT !.loc = [bRemovedAnyStacks |-> @.bRemovedAnyStacks \/ s1.ret # 0,
                        bDestroyAfterRemoval |-> @.bDestroyAfterRemoval
                                                 \/ (s1.ret # 0 /\ TrackedEffect.bDestroyOnRemoval),
                        removed |-> IF s1.ret # 0 THEN @.removed \cup {EffectHandle} ELSE @.removed]]

\* The handle the loops of RemoveGameplayEffectFromTarget visit first.
FirstHandle(hs) == CHOOSE x \in hs : \A y \in hs : x <= y

\* Step 3 stopping after the first collected handle.
RemoveMatching_FirstOnly(s, a, hs) ==
    IF hs = {} THEN s
    ELSE AccumulateRemoval(
             RemoveActiveGameplayEffect(s, FirstHandle(hs), s.reg[a][FirstHandle(hs)].StacksToRemove),
             FirstHandle(hs), s.reg[a][FirstHandle(hs)])

RECURSIVE RemoveMatching(_, _, _)
\* Step 3 of RemoveGameplayEffectFromTarget over the collected handles hs;
\* s.loc carries bRemovedAnyStacks, bDestroyAfterRemoval and the handles
\* whose removal returned a non-zero count.
RemoveMatching(s, a, hs) ==
    IF hs = {} THEN s
    ELSE RemoveMatching(
             IF ~IsValidASC(s, s.reg[a][FirstHandle(hs)].ASC) THEN s
             ELSE AccumulateRemoval(
                      RemoveActiveGameplayEffect(s, FirstHandle(hs), s.reg[a][FirstHandle(hs)].StacksToRemove),
                      FirstHandle(hs), s.reg[a][FirstHandle(hs)]),
             a, hs \ {FirstHandle(hs)})

\* Step 2 collecting one matching handle, the one tracked first, only.
HandlesForThisASC_OneHandle(s, a, TargetASC, EffectClass) ==
    {h \in DOMAIN s.reg[a] :
        /\ IsValidASC(s, s.reg[a][h].ASC)
        /\ s.reg[a][h].ASC = TargetASC
        /\ s.reg[a][h].EffectClass = EffectClass
        /\ \A g \in DOMAIN s.reg[a] :
               s.reg[a][g].ASC = TargetASC /\ s.reg[a][g].EffectClass = EffectClass => h <= g}

\* Step 2 of RemoveGameplayEffectFromTarget.
HandlesForThisASC(s, a, TargetASC, EffectClass) ==
    {h \in DOMAIN s.reg[a] : /\ IsValidASC(s, s.reg[a][h].ASC)
                             /\ s.reg[a][h].ASC = TargetASC
                             /\ s.reg[a][h].EffectClass = EffectClass}

\* The cleanup taking every collected handle for gone.
HandlesGone_AllCollected(s1, a, Collected) == Collected

\* Step 4 of RemoveGameplayEffectFromTarget: the collected handles whose
\* weak ASC is invalid or that no longer exist on the ASC.
HandlesGone(s1, a, Collected) ==
    {h \in Collected : ~IsValidASC(s1, s1.reg[a][h].ASC) \/ ~GetActiveGameplayEffect(s1, h)}

\* Step 4 of RemoveGameplayEffectFromTarget: those handles are erased from
\* the registry.
PurgeGone(s1, a, Collected) ==
    [s1 EXCEPT !.reg[a] = [h \in DOMAIN s1.reg[a] \ HandlesGone(s1, a, Collected) |-> s1.reg[a][h]]]

\* The step note of one removal run, s1 being the state after the removal
\* loop and s2 the state after the cleanup.
NoteRemove(s2, s1, a, i, Collected, pre) ==
    Note(s2, [op |-> "Remove", actor |-> a, row |-> i, matched |-> Collected, removed |-> s1.loc.removed,
              purged |-> HandlesGone(s1, a, Collected), pre |-> pre,
              post |-> [active |-> s2.active, base |-> s2.base, cur |-> s2.cur, reg |-> s2.reg[a]]])

\* Steps 4 and 5 destroying the actor whenever a collected entry carries
\* destroy-on-removal, whatever the removal returned.
CleanupAndDestroy_AnyFlagged(s1, a, i, Collected, pre) ==
    IF \E h \in Collected : pre.reg[h].bDestroyOnRemoval
    THEN Destroy(NoteRemove(PurgeGone(s1, a, Collected), s1, a, i, Collected, pre), a)
    ELSE NoteRemove(PurgeGone(s1, a, Collected), s1, a, i, Collected, pre)

\* Steps 4 and 5 of RemoveGameplayEffectFromTarget, s1 being the state after
\* the removal loop and pre the values before the call.
CleanupAndDestroy(s1, a, i, Collected, pre) ==
    IF s1.loc.bRemovedAnyStacks /\ s1.loc.bDestroyAfterRemoval
    THEN Destroy(NoteRemove(PurgeGone(s1, a, Collected), s1, a, i, Collected, pre), a)
    ELSE NoteRemove(PurgeGone(s1, a, Collected), s1, a, i, Collected, pre)

NoLocals == [bRemovedAnyStacks |-> FALSE, bDestroyAfterRemoval |-> FALSE, removed |-> {}]

\* The removal asking for the stacks of the row whose removal policy
\* triggered instead of the stacks recorded in the handle's entry.
RemoveGameplayEffectFromTarget_RowStacks(s, a, TargetActor, i) ==
    IF GetAbilitySystemComponent(s, TargetActor) = NullASC THEN s
    ELSE CleanupAndDestroy(
             RemoveMatching(
                 [s EXCEPT !.loc = NoLocals,
                           !.reg[a] = [h \in DOMAIN @ |->
                               [@[h] EXCEPT !.StacksToRemove =
                                   TrackedEffectFor(GameplayEffects[a][i], NullASC).StacksToRemove]]],
                 a,
                 HandlesForThisASC(s, a, GetAbilitySystemComponent(s, TargetActor),
                                   GameplayEffects[a][i].EffectClass)),
             a, i,
             HandlesForThisASC(s, a, GetAbilitySystemComponent(s, TargetActor),
                               GameplayEffects[a][i].EffectClass),
             [active |-> s.active, reg |-> s.reg[a], base |-> s.base, cur |-> s.cur])

RemoveGameplayEffectFromTarget(s, a, TargetActor, i) ==
    IF GetAbilitySystemComponent(s, TargetActor) = NullASC THEN s
    ELSE CleanupAndDestroy(
             RemoveMatching([s EXCEPT !.loc = NoLocals], a,
                            HandlesForThisASC(s, a, GetAbilitySystemComponent(s, TargetActor),
                                              GameplayEffects[a][i].EffectClass)),
             a, i,
             HandlesForThisASC(s, a, GetAbilitySystemComponent(s, TargetActor),
                               GameplayEffects[a][i].EffectClass),
             [active |-> s.active, reg |-> s.reg[a], base |-> s.base, cur |-> s.cur])

RECURSIVE ApplyAllGameplayEffects_NoClassCheck(_, _, _, _, _)
\* The loop over the rows without the test of the row's effect class.
ApplyAllGameplayEffects_NoClassCheck(s, a, TargetActor, ApplicationPolicy, i) ==
    IF i > Len(GameplayEffects[a]) THEN s
    ELSE ApplyAllGameplayEffects_NoClassCheck(
             IF GameplayEffects[a][i].ApplicationPolicy = ApplicationPolicy
             THEN ApplyGameplayEffectToTarget(s, a, TargetActor, i)
             ELSE s,
             a, TargetActor, ApplicationPolicy, i + 1)

RECURSIVE ApplyAllGameplayEffects(_, _, _, _, _)
\* The loop over the rows from row i on.
ApplyAllGameplayEffects(s, a, TargetActor, ApplicationPolicy, i) ==
    IF i > Len(GameplayEffects[a]) THEN s
    ELSE ApplyAllGameplayEffects(
             IF /\ GameplayEffects[a][i].EffectClass # NoClass
                /\ GameplayEffects[a][i].ApplicationPolicy = ApplicationPolicy
             THEN ApplyGameplayEffectToTarget(s, a, TargetActor, i)
             ELSE s,
             a, TargetActor, ApplicationPolicy, i + 1)

RECURSIVE RemoveAllGameplayEffects(_, _, _, _, _)
\* The loop over the rows from row i on.
RemoveAllGameplayEffects(s, a, TargetActor, RemovalPolicy, i) ==
    IF i > Len(GameplayEffects[a]) THEN s
    ELSE RemoveAllGameplayEffects(
             IF /\ GameplayEffects[a][i].EffectClass # NoClass
                /\ GameplayEffects[a][i].RemovalPolicy = RemovalPolicy
             THEN RemoveGameplayEffectFromTarget(s, a, TargetActor, i)
             ELSE s,
             a, TargetActor, RemovalPolicy, i + 1)

\* OnOverlap with the two loops in the opposite order.
OnOverlapResult_RemoveFirst(s, a, TargetActor) ==
    IF TargetActor = "nullptr" THEN s
    ELSE ApplyAllGameplayEffects(RemoveAllGameplayEffects(s, a, TargetActor, "RemoveOnOverlap", 1),
                                 a, TargetActor, "ApplyOnOverlap", 1)

OnOverlapResult(s, a, TargetActor) ==
    IF TargetActor = "nullptr" THEN s
    ELSE RemoveAllGameplayEffects(ApplyAllGameplayEffects(s, a, TargetActor, "ApplyOnOverlap", 1),
                                  a, TargetActor, "RemoveOnOverlap", 1)

EndOverlapResult(s, a, TargetActor) ==
    IF TargetActor = "nullptr" THEN s
    ELSE RemoveAllGameplayEffects(ApplyAllGameplayEffects(s, a, TargetActor, "ApplyEndOverlap", 1),
                                  a, TargetActor, "RemoveOnEndOverlap", 1)


\* ------------------------------------------------------- authored rows
Row(cls, app, rem, dApp, dRem, stacks) ==
    [EffectClass |-> cls, ApplicationPolicy |-> app, RemovalPolicy |-> rem,
     bDestroyOnEffectApplication |-> dApp, bDestroyOnEffectRemoval |-> dRem,
     ActorLevel |-> 1, StacksToRemove |-> stacks]

\* A row whose ActorLevel was set by code or loaded data, not in the editor.
RowAtLevel(cls, app, rem, level) == [Row(cls, app, rem, FALSE, FALSE, 0 - 1) EXCEPT !.ActorLevel = level]

\* The levels the model is run on: each gives every actor its rows (an actor
\* with no rows is not placed in the level).
Potion ==
    [A1 |-> << Row("GE_Heal", "ApplyOnOverlap", "DoNotRemove", TRUE, FALSE, 0 - 1),
               Row("GE_ManaPotion", "ApplyOnOverlap", "DoNotRemove", FALSE, FALSE, 0 - 1) >>,
     A2 |-> << >>]
Aura ==
    [A1 |-> << Row("GE_MaxHealthBuff", "ApplyOnOverlap", "RemoveOnEndOverlap", FALSE, FALSE, 0 - 1),
               Row("GE_Heal", "ApplyOnOverlap", "DoNotRemove", FALSE, FALSE, 0 - 1) >>,
     A2 |-> << >>]
TwoRows ==
    [A1 |-> << Row("GE_Buff_X", "ApplyOnOverlap", "RemoveOnEndOverlap", FALSE, FALSE, 1),
               Row("GE_Buff_X", "ApplyOnOverlap", "RemoveOnEndOverlap", FALSE, FALSE, 1) >>,
     A2 |-> << >>]
TwoRowsDestroy ==
    [A1 |-> << Row("GE_Buff_X", "ApplyOnOverlap", "RemoveOnEndOverlap", FALSE, TRUE, 1),
               Row("GE_Buff_X", "ApplyOnOverlap", "RemoveOnEndOverlap", FALSE, FALSE, 1) >>,
     A2 |-> << >>]
StackingAura ==
    [A1 |-> << Row("GE_StackAura", "ApplyOnOverlap", "RemoveOnEndOverlap", FALSE, FALSE, 1) >>,
     A2 |-> << >>]
FireArea ==
    [A1 |-> << Row("GE_FireArea", "ApplyOnOverlap", "RemoveOnEndOverlap", FALSE, FALSE, 0 - 1),
               Row("GE_Shield", "ApplyOnOverlap", "RemoveOnEndOverlap", FALSE, TRUE, 0) >>,
     A2 |-> << >>]
Toggle ==
    [A1 |-> << Row("GE_Buff_X", "ApplyEndOverlap", "RemoveOnOverlap", FALSE, FALSE, 0 - 1),
               Row("GE_MaxHealthBuff", "ApplyOnOverlap", "RemoveOnOverlap", FALSE, FALSE, 0 - 1),
               Row(NoClass, "ApplyOnOverlap", "RemoveOnOverlap", FALSE, FALSE, 0 - 1),
               Row("GE_MaxHealthDown", "DoNotApply", "DoNotRemove", TRUE, TRUE, 0 - 1),
               Row("GE_ManaPotion", "ApplyEndOverlap", "DoNotRemove", TRUE, FALSE, 0 - 1) >>,
     A2 |-> << Row("GE_Buff_X", "ApplyOnOverlap", "RemoveOnEndOverlap", FALSE, FALSE, 0 - 1) >>]
Mixed ==
    [A1 |-> << Row("GE_Heal", "ApplyOnOverlap", "RemoveOnEndOverlap", FALSE, FALSE, 0 - 1),
               Row("GE_Shield", "ApplyOnOverlap", "DoNotRemove", FALSE, FALSE, 0 - 1),
               Row("GE_StackAura", "ApplyOnOverlap", "RemoveOnEndOverlap", FALSE, FALSE, 1),
               Row("GE_StackAura", "ApplyOnOverlap", "DoNotRemove", FALSE, FALSE, 0 - 1) >>,
     A2 |-> << >>]
Incomplete ==
    [A1 |-> << Row(NoClass, "ApplyOnOverlap", "RemoveOnEndOverlap", FALSE, FALSE, 0 - 1),
               Row("GE_StackAura", "ApplyOnOverlap", "RemoveOnEndOverlap", FALSE, FALSE, 1),
               Row("GE_StackAura", "ApplyOnOverlap", "RemoveOnEndOverlap", FALSE, FALSE, 1) >>,
     A2 |-> << >>]
TwoAuras ==
    [A1 |-> << Row("GE_PairAura", "ApplyOnOverlap", "RemoveOnEndOverlap", FALSE, FALSE, 0 - 1) >>,
     A2 |-> << Row("GE_PairAura", "ApplyOnOverlap", "RemoveOnEndOverlap", TRUE, FALSE, 0 - 1) >>]
Merged ==
    [A1 |-> << Row("GE_PairAura", "ApplyOnOverlap", "RemoveOnEndOverlap", FALSE, FALSE, 1),
               Row("GE_PairAura", "ApplyOnOverlap", "RemoveOnEndOverlap", FALSE, TRUE, 0) >>,
     A2 |-> << >>]
NegativeLevel ==
    [A1 |-> << RowAtLevel("GE_Heal", "ApplyOnOverlap", "DoNotRemove", 0 - 1),
               RowAtLevel("GE_MaxHealthBuff", "ApplyOnOverlap", "RemoveOnEndOverlap", 0 - 1) >>,
     A2 |-> << >>]

Levels ==
    {Potion, Aura, TwoRows, TwoRowsDestroy, StackingAura, FireArea, Toggle, Mixed, Incomplete, TwoAuras,
     Merged, NegativeLevel}

\* Effects other sources (abilities, other actors of the game) apply to the
\* target directly.
OtherSourceEffects == {"GE_Heal", "GE_Damage", "GE_MaxHealthDown", "GE_Buff_X"}

\* ------------------------------------------------------------- actions
Pack ==
    [base |-> BaseValue, cur |-> CurrentValue, active |-> ActiveEffects, next |-> NextHandle,
     reg |-> ActiveGameplayEffects, destroyed |-> bActorDestroyed, asc |-> HeroASC,
     ret |-> INDEX_NONE, loc |-> NoLocals, trace |-> << >>, notified |-> << >>]

Snapshot == [base |-> BaseValue, cur |-> CurrentValue, active |-> ActiveEffects,
             reg |-> ActiveGameplayEffects, destroyed |-> bActorDestroyed]

Commit(s, op, actor, arg) ==
    /\ BaseValue' = s.base
    /\ CurrentValue' = s.cur
    /\ ActiveEffects' = s.active
    /\ NextHandle' = s.next
    /\ ActiveGameplayEffects' = s.reg
    /\ bActorDestroyed' = s.destroyed
    /\ HeroASC' = s.asc
    /\ last' = [op |-> op, actor |-> actor, arg |-> arg, pre |-> Snapshot, trace |-> s.trace,
                 notified |-> s.notified]
    /\ UNCHANGED GameplayEffects

Init ==
    /\ GameplayEffects \in Levels
    /\ BaseValue = InitBase
    /\ CurrentValue = InitBase
    /\ ActiveEffects = << >>
    /\ NextHandle = 1
    /\ ActiveGameplayEffects = [a \in Actors |-> << >>]
    /\ bActorDestroyed = [a \in Actors |-> FALSE]
    /\ HeroASC = 1
    /\ last = [op |-> "Init", actor |-> "none", arg |-> "none",
               pre |-> [base |-> InitBase, cur |-> InitBase, active |-> << >>,
                        reg |-> [a \in Actors |-> << >>],
                        destroyed |-> [a \in Actors |-> FALSE]],
               trace |-> << >>, notified |-> << >>]

\* The collision layer reports overlaps only to actors that are in the level
\* and not destroyed.
Overlappable(a) == GameplayEffects[a] # << >> /\ ~bActorDestroyed[a]

OnOverlap(a, TargetActor) ==
    /\ Overlappable(a)
    /\ NextHandle <= MaxHandles
    /\ Commit(OnOverlapResult(Pack, a, TargetActor), "OnOverlap", a, TargetActor)

EndOverlap(a, TargetActor) ==
    /\ Overlappable(a)
    /\ NextHandle <= MaxHandles
    /\ Commit(EndOverlapResult(Pack, a, TargetActor), "EndOverlap", a, TargetActor)

\* Another source applies an effect to the target; no actor tracks it.
OtherSourceApply(EffectClass) ==
    /\ NextHandle <= MaxHandles
    /\ EffectClass = "GE_MaxHealthDown" => CurrentValue["MaxHealth"] > 0 - MaxDebt * U
    /\ Commit(ApplyGameplayEffectSpecToSelf(Pack, EffectClass), "OtherSourceApply", "none", EffectClass)

\* The duration of a HasDuration effect runs out: the engine removes it.
DurationExpired(h) ==
    /\ h \in DOMAIN ActiveEffects
    /\ EffectCDO[ActiveEffects[h].Class].DurationPolicy = "HasDuration"
    /\ Commit(RemoveActiveGameplayEffect(Pack, h, 0 - 1), "DurationExpired", "none", h)

\* Another source (a dispel, an ability) removes an active effect by handle.
OtherSourceRemove(h) ==
    /\ h \in DOMAIN ActiveEffects
    /\ EffectCDO[ActiveEffects[h].Class].DurationPolicy = "Infinite"
    /\ Commit(RemoveActiveGameplayEffect(Pack, h, 0 - 1), "OtherSourceRemove", "none", h)

\* The Hero is destroyed (death, level stream out) and spawned again: the new
\* pawn owns a new component with a fresh attribute set and no active
\* effects; the component it owned before is destroyed with it. The model
\* follows the respawns that happen while an actor tracks the Hero.
TargetRespawn ==
    /\ HeroASC <= MaxRespawns
    /\ NextHandle <= MaxHandles
    /\ \E a \in Actors : \E h \in DOMAIN ActiveGameplayEffects[a] : ActiveGameplayEffects[a][h].ASC = HeroASC
    /\ Commit([Pack EXCEPT !.base = InitBase, !.cur = InitBase, !.active = << >>, !.asc = @ + 1],
              "TargetRespawn", "none", "Hero")

\* The period of an active periodic effect elapses: its modifiers execute.
PeriodTick(h) ==
    /\ h \in DOMAIN ActiveEffects
    /\ EffectCDO[ActiveEffects[h].Class].Periodic
    /\ Commit(ExecuteMods(Pack, ActiveEffects[h].Class, 1), "PeriodTick", "none", h)

Next ==
    \/ \E a \in Actors, t \in TargetActors : OnOverlap(a, t)
    \/ \E a \in Actors, t \in TargetActors : EndOverlap(a, t)
    \/ \E c \in OtherSourceEffects : OtherSourceApply(c)
    \/ \E h \in DOMAIN ActiveEffects : DurationExpired(h)
    \/ \E h \in DOMAIN ActiveEffects : OtherSourceRemove(h)
    \/ \E h \in DOMAIN ActiveEffects : PeriodTick(h)
    \/ TargetRespawn

Spec == Init /\ [][Next]_vars

\* ------------------------------------------- the clamp/round pipeline alone
\* The pipeline as a function of its inputs: an attribute (Health is paired
\* with MaxHealth, MaxHealth is no resource), a value v, the current value of
\* the capacity, and the number of decimals handed to RoundToDecimals.
PipelineAttrs == {"Health", "MaxHealth"}
PipelineValues == (0 - MaxInput) .. MaxInput
PipelineCaps == {c \in 0 .. MaxInput : c % 25 = 0}
PipelineDecimals == {0, 1, 2}

\* One pass of the three functions over the value x.
PipelinePass(Attribute, x, Decimals) ==
    [cur |-> PreAttributeChange(Pack, Attribute, x.cur),
     base |-> PreAttributeBaseChange(Pack, Attribute, x.base),
     round |-> RoundToDecimals(x.round, Decimals)]

\* What the three write paths of a resource yield for the value v under an
\* override of GetRoundingDecimals that returns Decimals for the resource.
PipelinePaired(v, Decimals) == ClampThenRound(v, CurrentValue["MaxHealth"], Decimals)

PipelineInit ==
    /\ GameplayEffects = Potion
    /\ \E cap \in PipelineCaps :
           /\ BaseValue = [InitBase EXCEPT !["MaxHealth"] = cap]
           /\ CurrentValue = [InitBase EXCEPT !["MaxHealth"] = cap]
    /\ ActiveEffects = << >>
    /\ NextHandle = 1
    /\ ActiveGameplayEffects = [a \in Actors |-> << >>]
    /\ bActorDestroyed = [a \in Actors |-> FALSE]
    /\ HeroASC = 1
    /\ \E a \in PipelineAttrs, v \in PipelineValues, d \in PipelineDecimals :
           last = [op |-> "Input", attr |-> a, v |-> v, decimals |-> d,
                   once |-> [cur |-> v, base |-> v, round |-> v],
                   twice |-> [cur |-> v, base |-> v, round |-> v], paired |-> v]

\* The value goes through the pipeline.
PipelineOnce ==
    /\ last.op = "Input"
    /\ last' = [last EXCEPT !.op = "Once",
                            !.once = PipelinePass(last.attr, last.once, last.decimals),
                            !.paired = PipelinePaired(last.v, last.decimals)]
    /\ UNCHANGED << GameplayEffects, BaseValue, CurrentValue, ActiveEffects, NextHandle,
                    ActiveGameplayEffects, bActorDestroyed, HeroASC >>

\* The result goes through the pipeline again.
PipelineTwice ==
    /\ last.op = "Once"
    /\ last' = [last EXCEPT !.op = "Twice",
                            !.twice = PipelinePass(last.attr, last.once, last.decimals)]
    /\ UNCHANGED << GameplayEffects, BaseValue, CurrentValue, ActiveEffects, NextHandle,
                    ActiveGameplayEffects, bActorDestroyed, HeroASC >>

PipelineNext == PipelineOnce \/ PipelineTwice

SpecPipeline == PipelineInit /\ [][PipelineNext]_vars

\* ------------------------------------------------ the pair registry alone
\* The two lookup maps of an attribute set, from the empty maps the base
\* constructor leaves to the maps after a number of RegisterCurrentMaxPair
\* calls of a derived constructor.  "None" is a default-constructed
\* FGameplayAttribute, for which IsValid() is false.
PairIds == Attrs \cup {NoClass}

IsValidAttribute(Attribute) == Attribute # NoClass

\* A registration that needs only one of the two attributes to be valid.
RegisterCurrentMaxPair_EitherValid(Pairs, Current, MaxA) ==
    IF IsValidAttribute(Current) \/ IsValidAttribute(MaxA)
    THEN [CurrentToMax |-> MapAdd(Pairs.CurrentToMax, Current, MaxA),
          MaxToCurrent |-> MapAdd(Pairs.MaxToCurrent, MaxA, Current)]
    ELSE Pairs

RegisterCurrentMaxPair(Pairs, Current, MaxA) ==
    IF IsValidAttribute(Current) /\ IsValidAttribute(MaxA)
    THEN [CurrentToMax |-> MapAdd(Pairs.CurrentToMax, Current, MaxA),
          MaxToCurrent |-> MapAdd(Pairs.MaxToCurrent, MaxA, Current)]
    ELSE Pairs

\* TryGetMaxForCurrent / TryGetCurrentForMax on the maps of Pairs: the set
\* holding the attribute found, empty when the lookup returns false.
FindMaxForCurrent(Pairs, Current) ==
    IF Current \in DOMAIN Pairs.CurrentToMax THEN {Pairs.CurrentToMax[Current]} ELSE {}

FindCurrentForMax(Pairs, MaxA) ==
    IF MaxA \in DOMAIN Pairs.MaxToCurrent THEN {Pairs.MaxToCurrent[MaxA]} ELSE {}

\* The call gives a registered resource another capacity, or a registered
\* capacity another resource.
ChangesPartner(Pairs, Current, MaxA) ==
    /\ IsValidAttribute(Current) /\ IsValidAttribute(MaxA)
    /\ \/ FindMaxForCurrent(Pairs, Current) \notin {{}, {MaxA}}
       \/ FindCurrentForMax(Pairs, MaxA) \notin {{}, {Current}}

PairsInit ==
    /\ GameplayEffects = Potion
    /\ BaseValue = InitBase
    /\ CurrentValue = InitBase
    /\ ActiveEffects = << >>
    /\ NextHandle = 1
    /\ ActiveGameplayEffects = [a \in Actors |-> << >>]
    /\ bActorDestroyed = [a \in Actors |-> FALSE]
    /\ HeroASC = 1
    /\ last = [op |-> "Construct", Current |-> NoClass, MaxA |-> NoClass, calls |-> 0,
               pairs |-> [CurrentToMax |-> << >>, MaxToCurrent |-> << >>],
               pre |-> [CurrentToMax |-> << >>, MaxToCurrent |-> << >>],
               prev |-> << >>, repartnered |-> FALSE]

\* One RegisterCurrentMaxPair call of the derived constructor.
PairsRegister ==
    /\ last.calls < MaxRegistrations
    /\ \E Current \in PairIds, MaxA \in PairIds :
           last' = [op |-> "RegisterCurrentMaxPair", Current |-> Current, MaxA |-> MaxA,
                    calls |-> last.calls + 1,
                    pairs |-> RegisterCurrentMaxPair(last.pairs, Current, MaxA),
                    pre |-> last.pairs,
                    prev |-> IF last.op = "Construct" THEN << >> ELSE << last.Current, last.MaxA >>,
                    repartnered |-> last.repartnered \/ ChangesPartner(last.pairs, Current, MaxA)]
    /\ UNCHANGED << GameplayEffects, BaseValue, CurrentValue, ActiveEffects, NextHandle,
                    ActiveGameplayEffects, bActorDestroyed, HeroASC >>

PairsNext == PairsRegister

SpecPairs == PairsInit /\ [][PairsNext]_vars

\* ------------------------------------------------------------- properties
Resources == DOMAIN CurrentToMax
Capacities == DOMAIN MaxToCurrent

\* The steps the operation that led to this state went through.
Tr == last.trace
Steps == 1 .. Len(Tr)

\* Step p is the After-effect-execute step of a permanent write that lowered
\* a capacity below the current value of its paired resource.
LoweredBelowResource(p) ==
    /\ p > 1
    /\ Tr[p].op = "PostExecute"
    /\ Tr[p].attr \in Capacities
    /\ Tr[p - 1].op = "SetCurrent"
    /\ Tr[p - 1].attr = Tr[p].attr
    /\ Tr[p - 1].new < Tr[p - 1].old
    /\ Tr[p].old > Tr[p].max

\* The re-clamp of step p wrote the resource back through the setter and left
\* it within [0, new capacity].
WrittenBackInRange(p) ==
    /\ p + 3 <= Len(Tr)
    /\ Tr[p + 1].op = "SetCurrentNumeric"
    /\ Tr[p + 1].attr = MaxToCurrent[Tr[p].attr]
    /\ Tr[p + 2].op = "SetBase"
    /\ Tr[p + 3].op = "SetCurrent"
    /\ Tr[p + 3].attr = MaxToCurrent[Tr[p].attr]
    /\ 0 <= Tr[p + 3].new
    /\ Tr[p + 3].new <= Tr[p].max
    /\ (p + 3 = Len(Tr) => CurrentValue[MaxToCurrent[Tr[p].attr]] = Tr[p + 3].new)

\* C1: every registered resource is within [0, current(capacity)] after every
\* operation of any sequence of effect applications and removals.
C1_ResourceWithinCapacity ==
    \A r \in Resources : 0 <= CurrentValue[r] /\ CurrentValue[r] <= CurrentValue[CurrentToMax[r]]

\* C2: when a permanent write lowers a capacity below the current value of its
\* resource, the After-effect-execute step leaves the resource within
\* [0, new capacity] and writes the correction back through the setter.
C2_ReclampAfterCapacityLowered ==
    \A p \in Steps : LoweredBelowResource(p) => WrittenBackInRange(p)

\* The re-clamp does its work whenever the lowered capacity is not negative.
ReclampWhenCapacityNotNegative ==
    \A p \in Steps : LoweredBelowResource(p) /\ Tr[p].max >= 0 => WrittenBackInRange(p)

\* An authoritative re-clamp that lowered a resource has happened.
ReclampHappened ==
    \E p \in Steps : LoweredBelowResource(p) /\ Tr[p].max >= 0 /\ WrittenBackInRange(p)
                      /\ Tr[p + 3].new < Tr[p].old

\* An Infinite effect class whose modifiers raise a capacity attribute.
RaisesCapacity(EffectClass) ==
    /\ EffectClass \in EffectClasses
    /\ IsInfinite(EffectClass)
    /\ ~IsPeriodic(EffectClass)
    /\ \A k \in 1 .. Len(ModsOf(EffectClass)) :
          ModsOf(EffectClass)[k].Attr \in Capacities /\ ModsOf(EffectClass)[k].Mag > 0

\* Step p is a removal run of an exit event that matched the live handle h of
\* a capacity-raising Infinite effect tracked for removal of all stacks.
RemovedOnExit(p, h) ==
    /\ last.op = "EndOverlap"
    /\ Tr[p].op = "Remove"
    /\ h \in Tr[p].matched
    /\ h \in DOMAIN Tr[p].pre.active
    /\ RaisesCapacity(Tr[p].pre.reg[h].EffectClass)
    /\ Tr[p].pre.reg[h].StacksToRemove = 0 - 1

\* The live handles the removal run of step p matched.
LiveMatched(p) == Tr[p].matched \cap DOMAIN Tr[p].pre.active

\* The handle is gone from the target and from the registry.
HandleRemovedAndPurged(p, h) ==
    /\ h \notin DOMAIN Tr[p].post.active
    /\ h \notin DOMAIN ActiveGameplayEffects[Tr[p].actor]

\* Every capacity the effect of h raised is back at its value without the
\* matched effects.
CapacityReverted(p, h) ==
    \A c \in Capacities :
        Contribution(Tr[p].pre.active[h], c) # 0 =>
            Tr[p].post.cur[c] = Tr[p].pre.cur[c] - AggregatorSum(Tr[p].pre.active, LiveMatched(p), c)

\* The resource of every capacity the effect of h raised is within it.
ResourceWithinReverted(p, h) ==
    \A c \in Capacities :
        Contribution(Tr[p].pre.active[h], c) # 0 =>
            Tr[p].post.cur[MaxToCurrent[c]] <= Tr[p].post.cur[c]

\* C3: after on_exit removed a tracked capacity-raising Infinite effect (all
\* stacks), its modifier is gone, the registry no longer holds the handle, the
\* capacity is back at its pre-effect value and the resource does not exceed it.
C3_ExitRevertsCapacityAndResource ==
    \A p \in Steps : \A h \in 1 .. MaxHandles + 1 :
        RemovedOnExit(p, h) =>
            /\ HandleRemovedAndPurged(p, h)
            /\ CapacityReverted(p, h)
            /\ ResourceWithinReverted(p, h)

\* The removal itself works: handle gone, entry purged, capacity reverted.
ExitRemovesAndReverts ==
    \A p \in Steps : \A h \in 1 .. MaxHandles + 1 :
        RemovedOnExit(p, h) => HandleRemovedAndPurged(p, h) /\ CapacityReverted(p, h)

\* Step p starts the execution of an Instant effect's modifier on a resource:
\* it is followed by the base commit, the current commit and the
\* After-effect-execute step.
InstantAddToResource(p) ==
    /\ p + 3 <= Len(Tr)
    /\ Tr[p].op = "ExecuteMod"
    /\ GetDurationPolicyOf(Tr[p].class) = "Instant"
    /\ Tr[p].attr \in Resources
    /\ Tr[p + 1].op = "SetBase"
    /\ Tr[p + 2].op = "SetCurrent"
    /\ Tr[p + 3].op = "PostExecute"

\* The committed base is clamp(old base + d, 0, current(capacity)), rounded.
CommittedBaseClamped(p) ==
    /\ Tr[p + 1].attr = Tr[p].attr
    /\ Tr[p + 1].new = RoundToDecimals(Clamp(Tr[p + 1].old + Tr[p].mag, 0, Tr[p + 1].cap),
                                       GetRoundingDecimals(Tr[p].attr))
    /\ (p + 3 = Len(Tr) => BaseValue[Tr[p].attr] = Tr[p + 1].new)

\* The committed current value of the resource after the base commit.
CommittedCurrent(p) == Tr[p + 2].new

\* C4 as stated: the committed base is the clamped and rounded sum and the
\* resource's current value equals it after the authoritative step.
C4_InstantBaseAndCurrent ==
    \A p \in Steps :
        InstantAddToResource(p) =>
            /\ CommittedBaseClamped(p)
            /\ Tr[p + 2].attr = Tr[p].attr
            /\ CommittedCurrent(p) = Tr[p + 1].new
            /\ (p + 3 = Len(Tr) => CurrentValue[Tr[p].attr] = Tr[p + 1].new)

\* C4 amended: the committed base is the clamped and rounded sum, and the
\* resource's current value is the committed base plus the active temporary
\* modifiers on the resource, clamped to [0, current(capacity)] and rounded;
\* it equals the committed base when no such modifier is active.
C4_InstantBaseAndCurrentWithModifiers ==
    \A p \in Steps :
        InstantAddToResource(p) =>
            /\ CommittedBaseClamped(p)
            /\ Tr[p + 2].attr = Tr[p].attr
            /\ CommittedCurrent(p) =
                   RoundToDecimals(Clamp(Tr[p + 1].new + Tr[p + 2].mods, 0, Tr[p + 2].cap),
                                   GetRoundingDecimals(Tr[p].attr))
            /\ (Tr[p + 2].mods = 0 => CommittedCurrent(p) = Tr[p + 1].new)
            /\ (p + 3 = Len(Tr) => CurrentValue[Tr[p].attr] = CommittedCurrent(p))

\* Health 90, MaxHealth 100, Instant +50: base 100 and current 100.
C4_HealClampedAtCapacity ==
    \E p \in Steps :
        /\ InstantAddToResource(p)
        /\ Tr[p].attr = "Health"
        /\ Tr[p].mag = 50 * U
        /\ Tr[p + 1].old = 90 * U
        /\ Tr[p + 1].cap = 100 * U
        /\ Tr[p + 1].new = 100 * U
        /\ p + 3 = Len(Tr)
        /\ BaseValue["Health"] = 100 * U
        /\ CurrentValue["Health"] = 100 * U

\* The row an Apply or Remove step worked on.
RowOf(p) == GameplayEffects[Tr[p].actor][Tr[p].row]

NoRemoveAfter(q) == \A r \in Steps : r > q => Tr[r].op # "Remove"

\* Step q applied a removable Infinite effect whose definition the same actor
\* had already applied to the target under the live, tracked handle h1.
SecondApplication(q, h1) ==
    /\ Tr[q].op = "Apply"
    /\ IsInfinite(RowOf(q).EffectClass)
    /\ RowOf(q).RemovalPolicy # "DoNotRemove"
    /\ h1 \in DOMAIN Tr[q].pre.reg
    /\ h1 \in DOMAIN Tr[q].pre.active
    /\ Tr[q].pre.reg[h1].EffectClass = RowOf(q).EffectClass

\* The second application got a handle of its own and both are tracked.
DistinctAndTracked(q, h1) ==
    /\ Tr[q].handle # h1
    /\ Tr[q].handle # INDEX_NONE
    /\ Tr[q].tracked
    /\ NoRemoveAfter(q) =>
          /\ {h1, Tr[q].handle} \subseteq DOMAIN ActiveGameplayEffects[Tr[q].actor]
          /\ {h1, Tr[q].handle} \subseteq DOMAIN ActiveEffects

\* The removal of handle last.arg left h2, tracked by actor a for the same
\* effect definition, active and tracked.
OtherLeftIntact(a, h2) ==
    /\ h2 \in DOMAIN ActiveEffects
    /\ ActiveEffects[h2] = last.pre.active[h2]
    /\ h2 \in DOMAIN ActiveGameplayEffects[a]
    /\ ActiveGameplayEffects[a][h2] = last.pre.reg[a][h2]

\* Handle h2 is another live handle actor a tracks for the effect definition
\* of the handle last.arg that has just been removed.
OtherOfRemoved(a, h2) ==
    /\ last.op = "OtherSourceRemove"
    /\ h2 # last.arg
    /\ {h2, last.arg} \subseteq DOMAIN last.pre.reg[a]
    /\ h2 \in DOMAIN last.pre.active
    /\ last.pre.active[h2].Class = last.pre.active[last.arg].Class

LostStacks(p) ==
    {h \in LiveMatched(p) :
        \/ h \notin DOMAIN Tr[p].post.active
        \/ Tr[p].post.active[h].Stacks < Tr[p].pre.active[h].Stacks}

\* The removal run of step p signalled the destruction of its actor.
DestroySignalled(p) ==
    /\ p < Len(Tr)
    /\ Tr[p + 1].op = "Destroy"
    /\ Tr[p + 1].actor = Tr[p].actor

\* Step p is a removal request none of whose matching handles is backed by a
\* modifier on the target: they are purged already (nothing matched) or stale.
StaleOrPurgedRequest(p) ==
    /\ Tr[p].op = "Remove"
    /\ LiveMatched(p) = {}

\* The removal request of step p, made once more in the state it led to.
Repeated(p) == RemoveGameplayEffectFromTarget(Pack, Tr[p].actor, last.arg, Tr[p].row)

RepeatChangesNothing(p) ==
    /\ Repeated(p).reg = ActiveGameplayEffects
    /\ Repeated(p).active = ActiveEffects
    /\ Repeated(p).base = BaseValue
    /\ Repeated(p).cur = CurrentValue
    /\ Repeated(p).destroyed = bActorDestroyed

\* C6: a removal request whose matching handles are purged or stale removes
\* no stacks, changes no attribute value and signals no destruction, and
\* repeating it leaves the registry and the target as the first request did.
C6_StaleRemovalIsNoOp ==
    \A p \in Steps :
        StaleOrPurgedRequest(p) =>
            /\ Tr[p].removed = {}
            /\ Tr[p].post.active = Tr[p].pre.active
            /\ Tr[p].post.base = Tr[p].pre.base
            /\ Tr[p].post.cur = Tr[p].pre.cur
            /\ ~DestroySignalled(p)
            /\ (p = Len(Tr) => RepeatChangesNothing(p))

\* A removal request found only stale handles, purged them and ended the event.
C6_StaleHandlesPurged ==
    \E p \in Steps :
        /\ StaleOrPurgedRequest(p)
        /\ Tr[p].matched # {}
        /\ Tr[p].purged = Tr[p].matched
        /\ \E h \in Tr[p].matched : Tr[p].pre.reg[h].bDestroyOnRemoval
        /\ p = Len(Tr)
        /\ ~bActorDestroyed[Tr[p].actor]

\* Step p is a removal run that matched two live handles of the same Infinite
\* effect identity, each tracked with stacks_to_remove = 1.
TwoMatchedOneStack(p) ==
    /\ Tr[p].op = "Remove"
    /\ Cardinality(LiveMatched(p)) >= 2
    /\ IsInfinite(RowOf(p).EffectClass)
    /\ \A h \in Tr[p].matched : Tr[p].pre.reg[h].StacksToRemove = 1

\* C7 as stated: one removal with stacks_to_remove = 1 takes one stack from
\* exactly one matched handle and leaves the other entry and modifier intact.
C7_OneStackFromOneHandle ==
    \A p \in Steps :
        TwoMatchedOneStack(p) =>
            /\ Cardinality(LostStacks(p)) = 1
            /\ \E h \in LiveMatched(p) :
                  /\ h \in DOMAIN Tr[p].post.active
                  /\ Tr[p].post.active[h] = Tr[p].pre.active[h]
                  /\ h \notin Tr[p].purged

\* What a removal of one stack leaves of the matched live handle h.
OneStackTaken(p, h) ==
    IF Tr[p].pre.active[h].Stacks > 1
    THEN /\ h \in DOMAIN Tr[p].post.active
         /\ Tr[p].post.active[h].Stacks = Tr[p].pre.active[h].Stacks - 1
         /\ h \notin Tr[p].purged
    ELSE /\ h \notin DOMAIN Tr[p].post.active
         /\ h \in Tr[p].purged

\* Step p is a removal run that matched live handles of an Infinite effect
\* identity, each tracked with stacks_to_remove = 1.
MatchedOneStack(p) ==
    /\ Tr[p].op = "Remove"
    /\ LiveMatched(p) # {}
    /\ IsInfinite(RowOf(p).EffectClass)
    /\ \A h \in Tr[p].matched : Tr[p].pre.reg[h].StacksToRemove = 1

\* C7 amended: one removal run takes one stack from every matched live handle
\* (a handle with a single stack is removed and its entry purged) and leaves
\* the effects it did not match untouched.
C7_OneStackFromEveryHandle ==
    \A p \in Steps :
        MatchedOneStack(p) =>
            /\ LostStacks(p) = LiveMatched(p)
            /\ \A h \in LiveMatched(p) : OneStackTaken(p, h)
            /\ \A h \in DOMAIN Tr[p].pre.active \ Tr[p].matched :
                  h \in DOMAIN Tr[p].post.active /\ Tr[p].post.active[h] = Tr[p].pre.active[h]

\* A removal run matched two live handles and removed both.
C7_BothHandlesRemoved ==
    \E p \in Steps :
        /\ TwoMatchedOneStack(p)
        /\ Cardinality(LiveMatched(p)) = 2
        /\ LiveMatched(p) \cap DOMAIN ActiveEffects = {}
        /\ LiveMatched(p) \cap DOMAIN ActiveGameplayEffects[Tr[p].actor] = {}

IsApply(n) == n.op = "Apply"
IsRemove(n) == n.op = "Remove"

\* The policies an event triggers.
EventApplyPolicy == IF last.op = "OnOverlap" THEN "ApplyOnOverlap" ELSE "ApplyEndOverlap"
EventRemovalPolicy == IF last.op = "OnOverlap" THEN "RemoveOnOverlap" ELSE "RemoveOnEndOverlap"

\* The rows of actor a that name an effect and whose policy matches the event.
RowsToApply(a) ==
    {i \in 1 .. Len(GameplayEffects[a]) :
        /\ GameplayEffects[a][i].EffectClass # NoClass
        /\ GameplayEffects[a][i].ApplicationPolicy = EventApplyPolicy}
RowsToRemove(a) ==
    {i \in 1 .. Len(GameplayEffects[a]) :
        /\ GameplayEffects[a][i].EffectClass # NoClass
        /\ GameplayEffects[a][i].RemovalPolicy = EventRemovalPolicy}

\* The steps in notes are those of exactly the rows in rows, in row order.
ExactlyInOrder(notes, a, rows) ==
    /\ Len(notes) = Cardinality(rows)
    /\ \A k \in 1 .. Len(notes) : notes[k].actor = a /\ notes[k].row \in rows
    /\ \A k \in 1 .. Len(notes) : \A l \in 1 .. Len(notes) : k < l => notes[k].row < notes[l].row

\* The last operation was an enter or exit event of an actor for a target
\* that resolves to an attribute store.
OverlapEvent ==
    /\ last.op \in {"OnOverlap", "EndOverlap"}
    /\ GetAbilitySystemComponent(Pack, last.arg) # NullASC

\* C8: within one enter (exit) event every row naming an effect whose apply
\* policy is on-enter (on-exit) is applied, in authored order, before any row
\* whose removal policy is on-enter (on-exit) is removed; rows whose policy
\* does not match the event are neither applied nor removed by it.
C8_ApplyThenRemoveInRowOrder ==
    OverlapEvent =>
        /\ ExactlyInOrder(SelectSeq(Tr, IsApply), last.actor, RowsToApply(last.actor))
        /\ ExactlyInOrder(SelectSeq(Tr, IsRemove), last.actor, RowsToRemove(last.actor))
        /\ \A p \in Steps : \A q \in Steps : Tr[p].op = "Apply" /\ Tr[q].op = "Remove" => p < q

\* An enter event applied a row and then removed rows, one of them the effect
\* it had just applied, while other rows of the actor did not match the event.
C8_EnterAppliedThenRemoved ==
    /\ OverlapEvent
    /\ last.op = "OnOverlap"
    /\ RowsToApply(last.actor) # {}
    /\ Cardinality(RowsToRemove(last.actor)) >= 2
    /\ \E i \in 1 .. Len(GameplayEffects[last.actor]) :
          i \notin RowsToApply(last.actor) /\ i \notin RowsToRemove(last.actor)
    /\ \E p \in Steps : \E q \in Steps :
          /\ Tr[p].op = "Apply"
          /\ Tr[q].op = "Remove"
          /\ Tr[p].handle \in LostStacks(q)

\* C9: after a row with destroy_self_on_apply has been applied the actor is
\* destroyed at once and no later row of the same batch is applied.
C9_DestroyOnApplyEndsBatch ==
    \A p \in Steps :
        Tr[p].op = "Apply" /\ RowOf(p).bDestroyOnEffectApplication =>
            /\ p < Len(Tr)
            /\ Tr[p + 1].op = "Destroy"
            /\ Tr[p + 1].actor = Tr[p].actor
            /\ \A q \in Steps : q > p => Tr[q].op # "Apply"

\* The actor is destroyed right after the apply call of such a row.
DestroyedRightAfterApply ==
    \A p \in Steps :
        Tr[p].op = "Apply" /\ RowOf(p).bDestroyOnEffectApplication =>
            /\ p < Len(Tr)
            /\ Tr[p + 1].op = "Destroy"
            /\ Tr[p + 1].actor = Tr[p].actor
            /\ bActorDestroyed[Tr[p].actor]

\* C10: one removal run signals the destruction of the actor if and only if
\* some matched handle's entry has destroy-on-removal set and its removal took
\* at least one stack, and it signals it once however many handles matched.
C10_DestroyIffFlaggedRemoval ==
    \A p \in Steps :
        Tr[p].op = "Remove" =>
            /\ DestroySignalled(p) <=> \E h \in LostStacks(p) : Tr[p].pre.reg[h].bDestroyOnRemoval
            /\ ~(p + 2 <= Len(Tr) /\ Tr[p + 1].op = "Destroy" /\ Tr[p + 2].op = "Destroy")

\* A removal run matched two handles, one of them flagged, removed both and
\* signalled destruction; the run after it did not signal it again.
C10_DestroyedOnceForTwoHandles ==
    \E p \in Steps :
        /\ Tr[p].op = "Remove"
        /\ Cardinality(LostStacks(p)) = 2
        /\ \E h \in LostStacks(p) : Tr[p].pre.reg[h].bDestroyOnRemoval
        /\ \E h \in LostStacks(p) : ~Tr[p].pre.reg[h].bDestroyOnRemoval
        /\ DestroySignalled(p)
        /\ bActorDestroyed[Tr[p].actor]
        /\ Cardinality({q \in Steps : Tr[q].op = "Destroy"}) = 1

\* The broadcasts of the attribute-change delegate during the operation that
\* led to this state.
Notified == last.notified

\* Step p is the After-effect-execute step of a permanent write to a capacity.
CapacityExecuted(p) ==
    /\ Tr[p].op = "PostExecute"
    /\ Tr[p].attr \in Capacities

\* Step p found its paired resource already within [0, new capacity].
ResourceAlreadyInRange(p) ==
    /\ 0 <= Tr[p].old
    /\ Tr[p].old <= Tr[p].max

\* The re-clamp of step p was followed by a change notification for the paired
\* resource: the write-back of the step commits at p + 3.
ResourceNotified(p) ==
    \E n \in 1 .. Len(Notified) :
        /\ Notified[n].attr = MaxToCurrent[Tr[p].attr]
        /\ Notified[n].at = p + 3

\* C11: after a permanent write to a capacity, the After-effect-execute step
\* fires a change notification for the paired resource, also when the resource
\* was already within [0, new capacity] and its value does not change.
C11_ReclampAlwaysNotifies ==
    \A p \in Steps : CapacityExecuted(p) => ResourceNotified(p)

\* The step notifies the resource exactly when the re-clamp changes its value.
ReclampNotifiesIffChanged ==
    \A p \in Steps :
        CapacityExecuted(p) =>
            (ResourceNotified(p) <=>
                Tr[p].old # RoundToDecimals(Clamp(Tr[p].old, 0, Tr[p].max),
                                            GetRoundingDecimals(MaxToCurrent[Tr[p].attr])))

\* A capacity was lowered permanently while its resource was already within
\* the new range, and no notification for the resource followed.
UnchangedResourceNotNotified ==
    \E p \in Steps :
        /\ CapacityExecuted(p)
        /\ ResourceAlreadyInRange(p)
        /\ Tr[p - 1].op = "SetCurrent"
        /\ Tr[p - 1].new < Tr[p - 1].old
        /\ ~ResourceNotified(p)

\* Step p commits a current value, step p a base value.
CurrentCommitted(p) == Tr[p].op = "SetCurrent"
BaseCommitted(p) == Tr[p].op = "SetBase"

\* The commit of step p was broadcast to the callbacks of its attribute with
\* the committed value.
BroadcastFor(p) ==
    {n \in 1 .. Len(Notified) :
        /\ Notified[n].at = p
        /\ Notified[n].attr = Tr[p].attr
        /\ Notified[n].new = Tr[p].new}

NonInstantRemovableValid(p) ==
    /\ IsNonInstant(RowOf(p).EffectClass)
    /\ RowOf(p).RemovalPolicy # "DoNotRemove"
    /\ Tr[p].handle # INDEX_NONE

\* The application of step p put an entry for the returned handle into the
\* registry of its actor and left every other entry alone.
EntryAdded(p) ==
    /\ DOMAIN Tr[p].reg = DOMAIN Tr[p].pre.reg \cup {Tr[p].handle}
    /\ Tr[p].reg[Tr[p].handle].ASC = Tr[p].asc
    /\ Tr[p].reg[Tr[p].handle].EffectClass = RowOf(p).EffectClass
    /\ Tr[p].reg[Tr[p].handle].bDestroyOnRemoval = RowOf(p).bDestroyOnEffectRemoval
    /\ \A h \in DOMAIN Tr[p].pre.reg \ {Tr[p].handle} : Tr[p].reg[h] = Tr[p].pre.reg[h]

\* C13: an application adds a registry entry for the returned handle if and
\* only if the effect is not Instant, the removal policy of the row is not
\* DoNotRemove and the handle is valid; an Instant effect and a DoNotRemove
\* row leave the registry as it was.
C13_TrackedIffRemovableNonInstant ==
    \A p \in Steps :
        Tr[p].op = "Apply" =>
            IF NonInstantRemovableValid(p) THEN EntryAdded(p) ELSE Tr[p].reg = Tr[p].pre.reg

\* One event applied an Instant row with a removal policy and a DoNotRemove
\* row of a lasting effect, neither of which was tracked, and a lasting row
\* with a removal policy, which was.
C13_OneTrackedTwoNot ==
    \E p, q, r \in Steps :
        /\ Tr[p].op = "Apply" /\ Tr[q].op = "Apply" /\ Tr[r].op = "Apply"
        /\ ~IsNonInstant(RowOf(p).EffectClass)
        /\ RowOf(p).RemovalPolicy # "DoNotRemove"
        /\ Tr[p].reg = Tr[p].pre.reg
        /\ IsNonInstant(RowOf(q).EffectClass)
        /\ RowOf(q).RemovalPolicy = "DoNotRemove"
        /\ Tr[q].handle # INDEX_NONE
        /\ Tr[q].handle \notin DOMAIN Tr[q].reg
        /\ NonInstantRemovableValid(r)
        /\ Tr[r].handle \notin DOMAIN Tr[r].pre.reg
        /\ EntryAdded(r)
        /\ Tr[r].handle \in DOMAIN ActiveGameplayEffects[Tr[r].actor]

\* The entries of a registry whose target reference no longer resolves.
NonResolving(reg) == {h \in DOMAIN reg : reg[h].ASC # HeroASC}

\* C14: a tracked entry whose target reference no longer resolves is removed:
\* after a removal pass of the actor for the effect identity of the entry the
\* registry holds no entry of that identity with a non-resolving target.
C14_DeadEntriesPurged ==
    \A p \in Steps :
        Tr[p].op = "Remove" =>
            \A h \in NonResolving(Tr[p].post.reg) :
                Tr[p].post.reg[h].EffectClass # RowOf(p).EffectClass

\* A removal pass neither collects nor erases an entry whose target reference
\* no longer resolves.
DeadEntriesKept ==
    \A p \in Steps :
        Tr[p].op = "Remove" =>
            \A h \in NonResolving(Tr[p].pre.reg) :
                /\ h \notin Tr[p].matched
                /\ h \in DOMAIN Tr[p].post.reg
                /\ Tr[p].post.reg[h] = Tr[p].pre.reg[h]

\* A removal pass for the effect identity of an entry whose target was
\* destroyed ran and the entry is still in the registry.
DeadEntrySurvivedRemoval ==
    \E p \in Steps :
        /\ Tr[p].op = "Remove"
        /\ \E h \in NonResolving(ActiveGameplayEffects[Tr[p].actor]) :
               ActiveGameplayEffects[Tr[p].actor][h].EffectClass = RowOf(p).EffectClass

\* The collected handles of the removal run of step p whose modifier no
\* longer exists on the target after it, and those that still have stacks.
GoneAfter(p) == {h \in Tr[p].matched : h \notin DOMAIN Tr[p].post.active}
StacksLeftAfter(p) ==
    {h \in Tr[p].matched : h \in DOMAIN Tr[p].post.active /\ Tr[p].post.active[h].Stacks >= 1}

\* C15: after a removal run every collected handle whose modifier no longer
\* exists on the target is deleted from the registry, and every collected
\* handle whose modifier still has stacks is still in the registry, with the
\* entry it had.
C15_PurgedIffGone ==
    \A p \in Steps :
        Tr[p].op = "Remove" =>
            /\ \A h \in GoneAfter(p) : h \notin DOMAIN Tr[p].post.reg
            /\ \A h \in StacksLeftAfter(p) :
                   h \in DOMAIN Tr[p].post.reg /\ Tr[p].post.reg[h] = Tr[p].pre.reg[h]
            /\ \A h \in DOMAIN Tr[p].pre.reg \ Tr[p].matched :
                   h \in DOMAIN Tr[p].post.reg /\ Tr[p].post.reg[h] = Tr[p].pre.reg[h]

\* One exit event ran two removal runs: the first took one stack of two and
\* kept the entry of its handle, the second took the last stack and deleted
\* the entry.
C15_KeptThenDeleted ==
    \E p, q \in Steps :
        /\ p < q
        /\ Tr[p].op = "Remove" /\ Tr[q].op = "Remove"
        /\ StacksLeftAfter(p) # {}
        /\ StacksLeftAfter(p) \subseteq DOMAIN Tr[p].post.reg
        /\ GoneAfter(q) # {}
        /\ GoneAfter(q) \subseteq DOMAIN Tr[q].pre.reg
        /\ GoneAfter(q) \cap DOMAIN ActiveGameplayEffects[Tr[q].actor] = {}

\* The actors other than the one of the last event.
OtherActors == Actors \ {last.actor}

\* The modifiers on the target when the removal run of step p began that the
\* other actors had recorded when the event began.
AppliedByOthers(p) ==
    {h \in DOMAIN Tr[p].pre.active : \E b \in OtherActors : h \in DOMAIN last.pre.reg[b]}

\* The removal run of step p left the modifier of handle h as it was.
StaysActive(p, h) ==
    /\ h \in DOMAIN Tr[p].post.active
    /\ Tr[p].post.active[h] = Tr[p].pre.active[h]

\* C16: for any interleaving of the enter and exit events of two actors on
\* one target, a removal run of one actor removes only modifiers whose handles
\* that actor recorded; the modifiers the other actor or another source
\* applied, those of the same effect identity included, stay active, and the
\* registry of the other actor is unchanged.
C16_RemovalLeavesOthersAlone ==
    last.op \in {"OnOverlap", "EndOverlap"} =>
        /\ \A p \in Steps :
               Tr[p].op = "Remove" =>
                   /\ LostStacks(p) \subseteq DOMAIN Tr[p].pre.reg
                   /\ \A h \in DOMAIN Tr[p].pre.active \ DOMAIN Tr[p].pre.reg : StaysActive(p, h)
                   /\ \A h \in AppliedByOthers(p) : StaysActive(p, h)
        /\ \A b \in OtherActors : ActiveGameplayEffects[b] = last.pre.reg[b]

\* A removal run takes stacks only from handles its actor recorded, leaves
\* every other handle as it was and never touches the other actor's registry.
RemovalByOwnHandlesOnly ==
    last.op \in {"OnOverlap", "EndOverlap"} =>
        /\ \A p \in Steps :
               Tr[p].op = "Remove" =>
                   /\ LostStacks(p) \subseteq DOMAIN Tr[p].pre.reg
                   /\ \A h \in DOMAIN Tr[p].pre.active \ DOMAIN Tr[p].pre.reg : StaysActive(p, h)
        /\ \A b \in OtherActors : ActiveGameplayEffects[b] = last.pre.reg[b]

\* Two actors hold entries of one effect identity, one removed its own
\* modifier; the modifier of the other is still active and still tracked.
OthersSameIdentityKept ==
    \E p \in Steps :
        /\ last.op \in {"OnOverlap", "EndOverlap"}
        /\ Tr[p].op = "Remove"
        /\ LostStacks(p) # {}
        /\ \E b \in OtherActors : \E h \in DOMAIN ActiveGameplayEffects[b] :
               /\ ActiveGameplayEffects[b][h].EffectClass = RowOf(p).EffectClass
               /\ h \in DOMAIN ActiveEffects
               /\ h \notin DOMAIN Tr[p].pre.reg

\* Both actors applied a stacking effect, one removal run of one of them took
\* every stack, and the other actor still tracks the handle.
SharedStacksRemoved ==
    \E p \in Steps :
        /\ last.op \in {"OnOverlap", "EndOverlap"}
        /\ Tr[p].op = "Remove"
        /\ \E h \in AppliedByOthers(p) \cap LostStacks(p) :
               /\ Tr[p].pre.active[h].Stacks = 2
               /\ h \notin DOMAIN ActiveEffects
               /\ \E b \in OtherActors : h \in DOMAIN ActiveGameplayEffects[b]

\* The last operation was an enter or exit event whose target is null or an
\* actor that does not resolve to an attribute store.
UnresolvedTargetEvent ==
    /\ last.op \in {"OnOverlap", "EndOverlap"}
    /\ last.arg \in {"nullptr", "Crate"}

\* C17: an enter or exit event whose target is null or does not resolve to an
\* attribute store is a no-op: no attribute value changes, no registry entry
\* is added or removed and the actor is not destroyed, whatever the flags of
\* its rows are.
C17_UnresolvedTargetIsNoOp ==
    UnresolvedTargetEvent =>
        /\ BaseValue = last.pre.base
        /\ CurrentValue = last.pre.cur
        /\ ActiveEffects = last.pre.active
        /\ ActiveGameplayEffects = last.pre.reg
        /\ bActorDestroyed = last.pre.destroyed
        /\ Tr = << >>
        /\ Notified = << >>

\* An exit event whose target has no attribute store reached an actor that
\* tracks an active modifier flagged destroy-on-removal under a row removed
\* on exit; the modifier is still active and the actor is not destroyed.
C17_FlaggedRowsNotRun ==
    /\ UnresolvedTargetEvent
    /\ last.op = "EndOverlap"
    /\ last.arg = "Crate"
    /\ \E h \in DOMAIN ActiveGameplayEffects[last.actor] :
           /\ ActiveGameplayEffects[last.actor][h].bDestroyOnRemoval
           /\ h \in DOMAIN ActiveEffects
           /\ \E i \in 1 .. Len(GameplayEffects[last.actor]) :
                  /\ GameplayEffects[last.actor][i].RemovalPolicy = "RemoveOnEndOverlap"
                  /\ GameplayEffects[last.actor][i].EffectClass = ActiveGameplayEffects[last.actor][h].EffectClass
    /\ \E i \in 1 .. Len(GameplayEffects[last.actor]) :
           /\ GameplayEffects[last.actor][i].ApplicationPolicy = "ApplyEndOverlap"
              \/ GameplayEffects[last.actor][i].RemovalPolicy = "RemoveOnEndOverlap"
    /\ ~bActorDestroyed[last.actor]

\* Step p is the application of a row whose level is below zero.
AppliedBelowLevelZero(p) ==
    /\ Tr[p].op = "Apply"
    /\ RowOf(p).ActorLevel < 0

\* C18: an apply call with a level below zero mutates nothing: the base and
\* the current value of every attribute and the registry are the same after
\* the call as before it, and no error is raised.
C18_NegativeLevelMutatesNothing ==
    /\ \A p \in Steps :
           AppliedBelowLevelZero(p) =>
               /\ Tr[p].base = Tr[p].pre.base
               /\ Tr[p].cur = Tr[p].pre.cur
               /\ Tr[p].reg = Tr[p].pre.reg
    /\ \A p \in Steps : Tr[p].op # "Fatal"

\* Rows at a level below zero were applied like any other row: a heal changed
\* Health and a lasting effect was added to the target and to the registry.
NegativeLevelApplied ==
    \E p, q \in Steps :
        /\ AppliedBelowLevelZero(p)
        /\ Tr[p].base["Health"] > Tr[p].pre.base["Health"]
        /\ AppliedBelowLevelZero(q)
        /\ Tr[q].handle \in DOMAIN ActiveEffects
        /\ Tr[q].handle \in DOMAIN Tr[q].reg
        /\ Tr[q].handle \notin DOMAIN Tr[q].pre.reg

\* The rows of actor a that name no effect and whose apply or removal policy
\* matches the event.
MissingRows(a) ==
    {i \in 1 .. Len(GameplayEffects[a]) :
        /\ GameplayEffects[a][i].EffectClass = NoClass
        /\ \/ GameplayEffects[a][i].ApplicationPolicy = EventApplyPolicy
           \/ GameplayEffects[a][i].RemovalPolicy = EventRemovalPolicy}

\* Row j of the actor of the event was applied, or removed, by the event.
RowApplied(j) == \E p \in Steps : Tr[p].op = "Apply" /\ Tr[p].row = j
RowRemoved(j) == \E p \in Steps : Tr[p].op = "Remove" /\ Tr[p].row = j

\* C19: applying or removing a row whose effect definition is missing is a
\* no-op and never a fatal error: the event takes no step for the row, no
\* registry entry and no modifier without an effect class exists, and the
\* rows after it that match the event are applied and removed.
C19_MissingDefinitionSkipped ==
    last.op \in {"OnOverlap", "EndOverlap"} =>
        /\ \A p \in Steps : Tr[p].op # "Fatal"
        /\ \A p \in Steps : Tr[p].op \in {"Apply", "Remove"} => RowOf(p).EffectClass # NoClass
        /\ \A a \in Actors : \A h \in DOMAIN ActiveGameplayEffects[a] :
               ActiveGameplayEffects[a][h].EffectClass # NoClass
        /\ \A h \in DOMAIN ActiveEffects : ActiveEffects[h].Class # NoClass
        /\ last.arg = "Hero" =>
               \A i \in MissingRows(last.actor) :
                   /\ \A j \in RowsToApply(last.actor) : j > i => RowApplied(j)
                   /\ \A j \in RowsToRemove(last.actor) : j > i => RowRemoved(j)

\* An event reached an actor whose first row names no effect and matches the
\* event; the two rows after it were applied and the handle was tracked.
C19_RowsAfterMissingApplied ==
    /\ last.op = "OnOverlap"
    /\ last.arg = "Hero"
    /\ 1 \in MissingRows(last.actor)
    /\ RowApplied(2)
    /\ RowApplied(3)
    /\ \E p \in Steps : Tr[p].op = "Apply" /\ Tr[p].row = 3 /\ Tr[p].handle \in DOMAIN ActiveGameplayEffects[last.actor]
    /\ CurrentValue["MaxHealth"] > last.pre.cur["MaxHealth"]

\* The value handed to the pipeline is within [0, current(capacity)] when its
\* attribute is a resource, and already rounded to the precision of the
\* attribute; it is already rounded to the decimals handed to RoundToDecimals.
ValidAndRounded ==
    /\ 0 <= last.v
    /\ TryGetMaxForCurrent(last.attr) => last.v <= CurrentValue[CurrentToMax[last.attr]]
    /\ last.v % RoundStep(GetRoundingDecimals(last.attr)) = 0
RoundedToDecimals == last.v % RoundStep(last.decimals) = 0

\* C20: a value that is within [0, current(capacity)] and rounded to the
\* precision of its attribute comes out of the clamp/round pipeline as it
\* went in, before a current write and before a base write, so two passes
\* give what one pass gives; RoundToDecimals returns a value that is rounded
\* to its decimals unchanged.
C20_PipelineRoundTrip ==
    /\ last.op \in {"Once", "Twice"} /\ ValidAndRounded =>
           last.once.cur = last.v /\ last.once.base = last.v
    /\ last.op = "Twice" /\ ValidAndRounded =>
           last.twice.cur = last.once.cur /\ last.twice.base = last.once.base
    /\ last.op \in {"Once", "Twice"} /\ RoundedToDecimals => last.once.round = last.v
    /\ last.op = "Twice" /\ RoundedToDecimals => last.twice.round = last.once.round

\* Two passes of any value give what one pass gives.
PipelineIdempotent ==
    last.op = "Twice" => last.twice = last.once

\* A resource value equal to its capacity, above zero and rounded, went
\* through the pipeline twice and came out unchanged.
C20_AtCapacityUnchanged ==
    /\ last.op = "Twice"
    /\ last.attr = "Health"
    /\ ValidAndRounded
    /\ last.v > 0
    /\ last.v = CurrentValue["MaxHealth"]
    /\ last.decimals = 1
    /\ RoundedToDecimals
    /\ last.twice = [cur |-> last.v, base |-> last.v, round |-> last.v]

\* Rounding of x to whole steps with ties away from zero.
AwayFromZero(x, Step) ==
    IF x >= 0 THEN ((2 * x + Step) \div (2 * Step)) * Step
    ELSE 0 - (((2 * (0 - x) + Step) \div (2 * Step)) * Step)

\* The value the three write paths hand to the rounding: the clamped value
\* for a resource, the value itself for any other attribute.
HandedToRounding ==
    IF TryGetMaxForCurrent(last.attr)
    THEN Clamp(last.v, 0, CurrentValue[CurrentToMax[last.attr]])
    ELSE last.v

\* C21: the rounding policy rounds to N decimals with ties away from zero for
\* every input, positive or negative (with 0 decimals 2.5 becomes 3 and -2.5
\* becomes -3), and the current-write path and the base-write path round the
\* same way.
C21_TiesAwayFromZero ==
    last.op = "Once" =>
        /\ last.once.round = AwayFromZero(last.v, RoundStep(last.decimals))
        /\ last.once.cur = AwayFromZero(HandedToRounding, RoundStep(GetRoundingDecimals(last.attr)))
        /\ last.once.base = last.once.cur

\* The rounding has ties away from zero for every value that is not negative,
\* and the two write paths agree on every value.
TiesAwayFromZeroWhenNotNegative ==
    last.op = "Once" =>
        /\ last.v >= 0 => last.once.round = AwayFromZero(last.v, RoundStep(last.decimals))
        /\ HandedToRounding >= 0 =>
               last.once.cur = AwayFromZero(HandedToRounding, RoundStep(GetRoundingDecimals(last.attr)))
        /\ last.once.base = last.once.cur

\* -2.5 was rounded to 0 decimals and came out as -2, on the write paths of an
\* attribute that is no resource as in RoundToDecimals itself.
NegativeTieRoundedUp ==
    /\ last.op = "Once"
    /\ last.attr = "MaxHealth"
    /\ last.decimals = 0
    /\ last.v = 0 - (5 * U) \div 2
    /\ last.once.round = 0 - 2 * U
    /\ last.once.cur = 0 - 2 * U
    /\ last.once.base = 0 - 2 * U

Registered == last.op = "RegisterCurrentMaxPair"

\* C22: RegisterCurrentMaxPair is idempotent for a given pair (the same pair
\* registered twice in a row leaves both maps as they were after the first
\* call) and changes neither map when the resource or the capacity is not a
\* valid attribute.
C22_RegisterIdempotentInvalidNoOp ==
    Registered =>
        /\ (~IsValidAttribute(last.Current) \/ ~IsValidAttribute(last.MaxA)) => last.pairs = last.pre
        /\ last.prev = << last.Current, last.MaxA >> => last.pairs = last.pre

\* A valid pair was registered twice in a row, then a call with an invalid
\* capacity was made, and the maps hold the pair alone.
C22_SamePairTwiceThenInvalid ==
    /\ Registered
    /\ last.calls = 3
    /\ last.prev = << "Health", "MaxHealth" >>
    /\ last.Current = "Mana" /\ last.MaxA = NoClass
    /\ last.pre.CurrentToMax = [Health |-> "MaxHealth"]
    /\ last.pairs = [CurrentToMax |-> [Health |-> "MaxHealth"], MaxToCurrent |-> [MaxHealth |-> "Health"]]

\* C29: after any sequence of RegisterCurrentMaxPair calls the two maps are
\* mutual inverses: r is mapped to c by CurrentToMax exactly if c is mapped
\* to r by MaxToCurrent, also after a resource or a capacity was registered a
\* second time with another partner.
C29_LookupsMutualInverses ==
    \A r \in Attrs, c \in Attrs :
        FindMaxForCurrent(last.pairs, r) = {c} <=> FindCurrentForMax(last.pairs, c) = {r}

\* The two maps are mutual inverses as long as no call changed a partner.
InversesWhileNoPartnerChanged ==
    ~last.repartnered => C29_LookupsMutualInverses

\* Health was registered with MaxHealth and then with MaxMana: MaxHealth
\* still leads to Health, but Health leads to MaxMana.
StaleInverseKept ==
    /\ Registered
    /\ last.prev = << "Health", "MaxHealth" >>
    /\ last.Current = "Health" /\ last.MaxA = "MaxMana"
    /\ FindCurrentForMax(last.pairs, "MaxHealth") = {"Health"}
    /\ FindMaxForCurrent(last.pairs, "Health") = {"MaxMana"}

\* Step p is a removal run that matched handles none of which was backed by
\* a modifier on the target any more.
AllMatchedStale(p) ==
    /\ Tr[p].op = "Remove"
    /\ Tr[p].matched # {}
    /\ Tr[p].matched \cap DOMAIN Tr[p].pre.active = {}

\* C23: a removal run all of whose matched handles were already stale deletes
\* their entries from the registry, counts no removed stacks and does not
\* signal the destruction of the actor, also when the entries carry
\* destroy-on-removal.
C23_AllStaleRunPurgesOnly ==
    \A p \in Steps :
        AllMatchedStale(p) =>
            /\ Tr[p].purged = Tr[p].matched
            /\ Tr[p].matched \cap DOMAIN Tr[p].post.reg = {}
            /\ Tr[p].removed = {}
            /\ ~DestroySignalled(p)

\* Every handle a removal run matched was stale and tracked with
\* destroy-on-removal; the entries are gone and the actor is not destroyed.
C23_FlaggedStaleEntriesPurged ==
    \E p \in Steps :
        /\ AllMatchedStale(p)
        /\ \A h \in Tr[p].matched : Tr[p].pre.reg[h].bDestroyOnRemoval
        /\ Tr[p].matched \cap DOMAIN ActiveGameplayEffects[Tr[p].actor] = {}
        /\ ~bActorDestroyed[Tr[p].actor]

\* Step q is a tracked application that returned a handle the actor's
\* registry already held: the application was merged into that handle.
MergedApplication(q) ==
    /\ Tr[q].op = "Apply"
    /\ Tr[q].tracked
    /\ Tr[q].handle \in DOMAIN Tr[q].pre.reg

\* C24: when a re-application returns a handle the registry already holds,
\* the registry keeps exactly one entry for that handle, with the
\* stacks-to-remove and destroy-on-removal values of the row applied last,
\* and its other entries are as they were.
C24_MergedHandleTakesLastRow ==
    \A q \in Steps :
        MergedApplication(q) =>
            /\ DOMAIN Tr[q].reg = DOMAIN Tr[q].pre.reg
            /\ Tr[q].reg[Tr[q].handle] = TrackedEffectFor(RowOf(q), Tr[q].asc)
            /\ \A h \in DOMAIN Tr[q].pre.reg \ {Tr[q].handle} : Tr[q].reg[h] = Tr[q].pre.reg[h]

\* A merged application replaced an entry asking for one stack and no
\* destruction by one asking for all stacks and destruction.
C24_EntryOverwrittenByLastRow ==
    \E q \in Steps :
        /\ MergedApplication(q)
        /\ q = Len(Tr)
        /\ Tr[q].pre.reg[Tr[q].handle].StacksToRemove = 1
        /\ ~Tr[q].pre.reg[Tr[q].handle].bDestroyOnRemoval
        /\ Cardinality(DOMAIN ActiveGameplayEffects[Tr[q].actor]) = 1
        /\ ActiveGameplayEffects[Tr[q].actor][Tr[q].handle].StacksToRemove = 0 - 1
        /\ ActiveGameplayEffects[Tr[q].actor][Tr[q].handle].bDestroyOnRemoval

\* What a request for n stacks (all of them for n = -1) leaves of the live
\* handle h the removal run of step p matched.
StacksTaken(p, h, n) ==
    IF n > 0 /\ Tr[p].pre.active[h].Stacks > n
    THEN /\ h \in DOMAIN Tr[p].post.active
         /\ Tr[p].post.active[h].Stacks = Tr[p].pre.active[h].Stacks - n
    ELSE h \notin DOMAIN Tr[p].post.active

\* C26: a tracked application records the row's StacksToRemove in the
\* handle's entry, a configured value of 0 or less as -1, and a removal run
\* asks for the stacks recorded in the entry of each handle, not for the
\* StacksToRemove of the row whose removal policy triggered it.
C26_RemovalUsesRecordedStacks ==
    /\ \A q \in Steps :
           Tr[q].op = "Apply" /\ Tr[q].tracked =>
               Tr[q].reg[Tr[q].handle].StacksToRemove =
                   (IF RowOf(q).StacksToRemove <= 0 THEN 0 - 1 ELSE RowOf(q).StacksToRemove)
    /\ \A p \in Steps :
           Tr[p].op = "Remove" =>
               \A h \in LiveMatched(p) : StacksTaken(p, h, Tr[p].pre.reg[h].StacksToRemove)

\* The removal policy of a row configured with one stack triggered a run on a
\* handle of two stacks whose entry recorded -1 for a row configured with 0:
\* both stacks are gone.
C26_RowAsksOneEntryAsksAll ==
    \E p \in Steps :
        /\ Tr[p].op = "Remove"
        /\ RowOf(p).StacksToRemove = 1
        /\ \E h \in LiveMatched(p) :
               /\ Tr[p].pre.reg[h].StacksToRemove = 0 - 1
               /\ Tr[p].pre.active[h].Stacks = 2
               /\ h \notin DOMAIN ActiveEffects
        /\ \E i \in 1 .. Len(GameplayEffects[Tr[p].actor]) :
               /\ GameplayEffects[Tr[p].actor][i].EffectClass = RowOf(p).EffectClass
               /\ GameplayEffects[Tr[p].actor][i].StacksToRemove = 0

\* Base plus temporary modifiers of attribute r before the last operation and
\* after it, with no clamp.
UnclampedBefore(r) == last.pre.base[r] + AggregatorSum(last.pre.active, DOMAIN last.pre.active, r)
UnclampedNow(r) == BaseValue[r] + AggregatorSum(ActiveEffects, DOMAIN ActiveEffects, r)

\* Before the last operation a temporary modifier held the unclamped value of
\* resource r above its capacity, the clamp showing the capacity; the
\* operation raised the capacity and applied nothing to r: the base and the
\* modifiers of r are what they were.
CapacityRaisedOverHiddenExcess(r) ==
    /\ "pre" \in DOMAIN last
    /\ last.pre.base[r] <= last.pre.cur[CurrentToMax[r]]
    /\ UnclampedBefore(r) > last.pre.cur[CurrentToMax[r]]
    /\ last.pre.cur[r] = last.pre.cur[CurrentToMax[r]]
    /\ CurrentValue[CurrentToMax[r]] > last.pre.cur[CurrentToMax[r]]
    /\ BaseValue[r] = last.pre.base[r]
    /\ \A h \in DOMAIN last.pre.active :
           Contribution(last.pre.active[h], r) # 0 =>
               h \in DOMAIN ActiveEffects /\ ActiveEffects[h] = last.pre.active[h]
    /\ UnclampedNow(r) = UnclampedBefore(r)

EnterExitRow(a, i) ==
    /\ GameplayEffects[a][i].EffectClass # NoClass
    /\ IsInfinite(GameplayEffects[a][i].EffectClass)
    /\ ~EffectCDO[GameplayEffects[a][i].EffectClass].Stacking
    /\ GameplayEffects[a][i].ApplicationPolicy = "ApplyOnOverlap"
    /\ GameplayEffects[a][i].RemovalPolicy = "RemoveOnEndOverlap"
    /\ GameplayEffects[a][i].StacksToRemove <= 0

\* The handles actor a tracked for the Hero's component and the effect of
\* row i before the last operation.
TrackedForRow(a, i) ==
    {h \in DOMAIN last.pre.reg[a] :
        /\ last.pre.reg[a][h].ASC = HeroASC
        /\ last.pre.reg[a][h].EffectClass = GameplayEffects[a][i].EffectClass}

\* C27: for a row that applies a non-stacking Infinite effect on enter and
\* removes all stacks on exit, after any number n >= 1 of enter events for the
\* same target followed by one exit event none of the n modifiers is active
\* and the registry holds no entry for that target and effect.
C27_ExitRemovesEveryEnter ==
    last.op = "EndOverlap" /\ last.arg = "Hero" =>
        \A i \in 1 .. Len(GameplayEffects[last.actor]) :
            EnterExitRow(last.actor, i) =>
                /\ TrackedForRow(last.actor, i) \cap DOMAIN ActiveEffects = {}
                /\ \A h \in DOMAIN ActiveGameplayEffects[last.actor] :
                       ~(/\ ActiveGameplayEffects[last.actor][h].ASC = HeroASC
                         /\ ActiveGameplayEffects[last.actor][h].EffectClass =
                                GameplayEffects[last.actor][i].EffectClass)

\* Two enter events had left two active modifiers of the row's effect, each
\* with its entry; one exit event removed both and left the registry empty.
C27_TwoEntersOneExit ==
    /\ last.op = "EndOverlap" /\ last.arg = "Hero"
    /\ \E i \in 1 .. Len(GameplayEffects[last.actor]) :
           /\ EnterExitRow(last.actor, i)
           /\ Cardinality(TrackedForRow(last.actor, i) \cap DOMAIN last.pre.active) = 2
           /\ TrackedForRow(last.actor, i) \cap DOMAIN ActiveEffects = {}
    /\ ActiveGameplayEffects[last.actor] = << >>

\* C28: whatever the number of decimals configured for a resource, also when
\* it is rounded more coarsely than its capacity (resource 0 decimals,
\* capacity 1 decimal), the value the clamp-then-round steps of the
\* current-write, base-write and re-clamp paths produce for it is at most the
\* current value of the capacity.
C28_ClampThenRoundWithinCapacity ==
    last.op = "Once" /\ TryGetMaxForCurrent(last.attr) =>
        last.paired <= CurrentValue[CurrentToMax[last.attr]]

\* The value is at most the capacity whenever the capacity is a value the
\* resource's own rounding leaves unchanged.
WithinCapacityOnResourceGrid ==
    last.op = "Once" /\ TryGetMaxForCurrent(last.attr)
    /\ RoundToDecimals(CurrentValue[CurrentToMax[last.attr]], last.decimals)
           = CurrentValue[CurrentToMax[last.attr]]
        => last.paired <= CurrentValue[CurrentToMax[last.attr]]

\* Health rounded to 0 decimals under a MaxHealth of 0.5, a value a capacity
\* rounded to 1 decimal holds: a write of 2 is clamped to 0.5 and rounded to 1.
RoundedAboveCapacity ==
    /\ last.op = "Once"
    /\ last.attr = "Health"
    /\ last.decimals = 0
    /\ CurrentValue["MaxHealth"] = U \div 2
    /\ RoundToDecimals(CurrentValue["MaxHealth"], 1) = CurrentValue["MaxHealth"]
    /\ last.v = 2 * U
    /\ last.paired = U

\* The value the re-clamp of step p computes for the resource paired with
\* the capacity that changed.
ReclampedValue(p) ==
    ClampThenRound(Tr[p].old, Tr[p].max, GetRoundingDecimals(MaxToCurrent[Tr[p].attr]))

\* The re-clamp of step p wrote the base of the resource through the setter.
BaseWrittenAfter(p) ==
    /\ p + 3 <= Len(Tr)
    /\ Tr[p + 1].op = "SetCurrentNumeric"
    /\ Tr[p + 1].attr = MaxToCurrent[Tr[p].attr]
    /\ Tr[p + 2].op = "SetBase"
    /\ Tr[p + 2].attr = MaxToCurrent[Tr[p].attr]
    /\ Tr[p + 3].op = "SetCurrent"
    /\ Tr[p + 3].attr = MaxToCurrent[Tr[p].attr]

\* C30: when the re-clamp after a permanent write to a capacity corrects the
\* resource, it sets the base of the resource to the clamped and rounded
\* current value, whatever the base was and also while a temporary modifier
\* contributes to that current value; when the clamped and rounded value
\* equals the current value, neither base nor current of the resource is
\* written.
C30_ReclampWritesCurrentIntoBase ==
    \A p \in Steps :
        Tr[p].op = "PostExecute" /\ Tr[p].attr \in Capacities =>
            IF ReclampedValue(p) # Tr[p].old
            THEN /\ BaseWrittenAfter(p)
                 /\ Tr[p + 1].value = ReclampedValue(p)
                 /\ Tr[p + 2].new = ReclampedValue(p)
                 /\ Tr[p + 3].base = ReclampedValue(p)
            ELSE p = Len(Tr) \/ Tr[p + 1].op \notin {"SetCurrentNumeric", "SetBase", "SetCurrent"}

\* Health had base 90 and a temporary modifier behind its current value 100
\* when MaxHealth was lowered to 50: the re-clamp set the base of Health to
\* 50 with the modifier still active.
C30_BaseTakesClampedCurrent ==
    \E p \in Steps :
        /\ Tr[p].op = "PostExecute"
        /\ Tr[p].attr = "MaxHealth"
        /\ BaseWrittenAfter(p)
        /\ Tr[p].old = 100 * U
        /\ Tr[p + 2].old = 90 * U
        /\ Tr[p + 2].new = 50 * U
        /\ Tr[p + 3].mods > 0
        /\ p + 3 = Len(Tr)
        /\ BaseValue["Health"] = 50 * U
        /\ CurrentValue["Health"] = 50 * U

====
